---- MODULE Spec2Model ----
(***************************************************************************)
(* The fixed-size thread pool of commons/worker.py: WorkQ (a queue.Queue   *)
(* guarded by a counting semaphore) and Workers (start_workers, worker,    *)
(* wenque, end_workers).  The pool queue w_workq carries child WorkQ       *)
(* objects; a worker takes one item from the child it dequeued and calls   *)
(* the child's func on it.                                                 *)
(*                                                                         *)
(* The K-pod scenarios of tests/ha/multi_pod_failure share one skeleton:   *)
(* an Event and an output Queue are made, a background thread is started,  *)
(* the event is set, K pods are deleted, the event is cleared, the cluster *)
(* is checked, the thread is joined, its report is polled from the queue   *)
(* and judged.  SpecScenario follows test_copy_object_during_kpods_down,   *)
(* with the set / delete loop / clear taken from                           *)
(* test_ios_during_kpods_down, the one test that has them inline.  The     *)
(* background thread's target and the shutdown helper live in libs/ha,     *)
(* outside the files modelled here; they are modelled from the design      *)
(* document.  SpecWindow puts the Event under arbitrary callers, and SpecB *)
(* runs the design document's Scenario B on the pool.  SpecPoll is the     *)
(* polling loop on the output queue with a clock, SpecLive the pool under  *)
(* fair scheduling of its threads, and SpecSingleton the SingletonMixin of *)
(* commons/report_client.py under two client threads.  SpecClass runs the  *)
(* test class through setup_method, a pod shutdown and teardown_method for *)
(* several tests on the class-level pod_name_list and pod_dict, and        *)
(* SpecBucket is the bucket wait loop with its deadline.                   *)
(***************************************************************************)
EXTENDS Integers, Sequences, FiniteSets, TLC

\* ------------------------------------------------------------------ bounds
MaxWorkers == 2
MaxTasks == 2
MaxEndCalls == 2
MaxK == 2
MaxOps == 2
MaxReaders == 2
MaxSignals == 2
MaxMsgs == 3
MaxMade == 2
MaxTests == 2
MaxBkt == 2
MaxLatency == 1
\* The ticks of the clock in HA_CFG["common_params"]["60sec_delay"]
DelayTicks == 2

\* ------------------------------------------------------------ vocabulary
Pool == "w_workq"
Children == {"c1", "c2"}
Queues == {Pool} \cup Children
None == "None"
Payloads == {"a"}
Workers == 1..MaxWorkers
Callers == {"main", "aux"}
TaskIds == 1..MaxTasks
Sentinel == [id |-> 0, wq |-> None]
Ops == 1..MaxOps
Readers == 1..MaxReaders
Clients == {"t1", "t2"}
Pods == {"p1", "p2", "p3"}

VARIABLES
    nworkers,    \* len(self.w_workers), the nworkers given to start_workers
    poolFunc,    \* the func given to start_workers (kept as w_workq.func)
    items,       \* items[q]: the deque of queue q, head first
    sem,         \* sem[q]: value of q.semaphore
    unfinished,  \* unfinished[q]: q.unfinished_tasks
    wpc,         \* wpc[w]: where worker thread w stands in Workers.worker
    wcur,        \* wcur[w]: the entry w took from w_workq (local wq)
    witem,       \* witem[w]: the item w took from the child queue (local wi)
    cpc,         \* cpc[p]: where calling thread p stands
    ctarget,     \* ctarget[p]: the queue p is putting to
    citem,       \* citem[p]: the item p is putting
    csub,        \* csub[p]: the pool entry of the submission p has in progress
    e_i,         \* loop variable i of end_workers' sentinel loop
    hist,        \* history of the run, read by the properties only
    event,       \* the flag of the threading.Event a scenario passes around
    kvalue,      \* self.kvalue, the number of data pods a scenario takes down
    count,       \* the pods deleted so far by the shutdown loop
    opc,         \* where the orchestrating test thread stands
    thread,      \* the state of the background thread the scenario started
    cur,         \* the operation the background thread has in progress
    res,         \* res[i]: how operation i of the background thread ended
    output,      \* the Queue the background thread reports on, head first
    responses,   \* the orchestrator's local responses
    rd,          \* rd[r]: what reader thread r last saw the event to be
    fw,          \* history of the event, read by the properties only
    waited,      \* how long the output.get(timeout=...) in progress has blocked
    loopTime,    \* how long the polling loop has blocked since it was entered
    instance,    \* SingletonMixin.__instance of the class, 0 being None
    instance_lock, \* the thread holding SingletonMixin.__instance_lock, or None
    spc,         \* spc[t]: where client thread t stands in a SingletonMixin method
    sargs,       \* sargs[t]: the arguments t gave to init_instance or reinit_instance
    sret,        \* sret[t]: how the last SingletonMixin call of t ended
    made,        \* how many times the class constructor has been called
    resets,      \* how many times reinit_instance or clear_instance was called
    pod_name_list, \* cls.pod_name_list, the list object setup_class made
    pod_dict,    \* cls.pod_dict, the dict object setup_class made
    self_pod_name_list, \* the pod_name_list attribute of the test instance, if assigned
    restore_pod, \* self.restore_pod, None being FALSE
    tkvalue,     \* self.kvalue of the test instance
    test,        \* the test method the instance is running
    tpc,         \* where the test instance stands in setup, test and teardown
    pod_name,    \* the pod the loop in progress is at
    t_i,         \* the position of the test's loop over self.pod_name_list
    r_i,         \* the position of teardown_method's restore loop
    tests,       \* how many tests of the class have been set up
    life,        \* history of the test in progress, read by the properties only
    bpc,         \* where the test stands in the bucket wait loop
    now,         \* time.time(), in seconds since the loop was reached
    timeout,     \* the local timeout of the bucket wait loop
    bkt_cnt,     \* HA_CFG["copy_obj_data"]["bkt_multi"]
    bkt_list,    \* len(bkt_list), the buckets the last poll listed
    polls        \* history of the wait loop, read by the properties only

poolVars == <<nworkers, poolFunc, items, sem, unfinished, wpc, wcur, witem,
              cpc, ctarget, citem, csub, e_i, hist>>

scenarioVars == <<event, kvalue, count, opc, thread, cur, res, output,
                  responses, rd, fw>>

pollVars == <<waited, loopTime>>

singletonVars == <<instance, instance_lock, spc, sargs, sret, made, resets>>

classVars == <<pod_name_list, pod_dict, self_pod_name_list, restore_pod, tkvalue,
               test, tpc, pod_name, t_i, r_i, tests, life>>

bucketVars == <<bpc, now, timeout, bkt_cnt, bkt_list, polls>>

vars == <<poolVars, scenarioVars, pollVars, singletonVars, classVars, bucketVars>>

\* ------------------------------------------------------------------ WorkQ
\* WorkQ.__init__(func, maxsize): the pool queue is WorkQ(func, nworkers);
\* the child queues are built by the callers: c1 is WorkQ("f", 1), bounded,
\* and c2 is WorkQ("g", 0), unbounded (lock_req False).
Maxsize(q) == IF q = Pool THEN nworkers ELSE IF q = "c1" THEN 1 ELSE 0

\* Admission control kept on whatever the maxsize
LockReq_Always(q) == TRUE

\* self.lock_req = maxsize != 0
LockReq(q) == Maxsize(q) # 0

Func(q) == IF q = Pool THEN poolFunc ELSE IF q = "c1" THEN "f" ELSE "g"

\* WorkQ.put, first statement, forgotten: no permit is taken.
SemAcquire_NoPermit(q) == UNCHANGED sem

\* WorkQ.put, first statement: if self.lock_req: self.semaphore.acquire()
SemAcquire(q) ==
    IF LockReq(q)
    THEN sem[q] > 0 /\ sem' = [sem EXCEPT ![q] = @ - 1]
    ELSE UNCHANGED sem

\* queue.Queue.put blocks while maxsize > 0 and qsize() >= maxsize
NotFull(q) == Maxsize(q) = 0 \/ Len(items[q]) < Maxsize(q)

\* A put that drops an entry equal to one already queued
QueuePut_Coalesce(q, x) ==
    /\ NotFull(q)
    /\ IF \E i \in 1..Len(items[q]) :
             IF q = Pool THEN items[q][i].wq = x.wq ELSE items[q][i] = x
       THEN UNCHANGED <<items, unfinished>>
       ELSE /\ items' = [items EXCEPT ![q] = Append(@, x)]
            /\ unfinished' = [unfinished EXCEPT ![q] = @ + 1]

\* queue.Queue.put: append, unfinished_tasks += 1
QueuePut(q, x) ==
    /\ NotFull(q)
    /\ items' = [items EXCEPT ![q] = Append(@, x)]
    /\ unfinished' = [unfinished EXCEPT ![q] = @ + 1]

\* WorkQ.task_done giving two permits back
SemRelease_Twice(q) ==
    IF LockReq(q)
    THEN sem' = [sem EXCEPT ![q] = @ + 2]
    ELSE UNCHANGED sem

\* WorkQ.task_done without the release
SemRelease_Forgotten(q) == UNCHANGED sem

\* WorkQ.task_done, first statement: if self.lock_req: self.semaphore.release()
SemRelease(q) ==
    IF LockReq(q)
    THEN sem' = [sem EXCEPT ![q] = @ + 1]
    ELSE UNCHANGED sem

\* queue.Queue.task_done raises ValueError when called too many times
AckFails(q) == unfinished[q] <= 0

\* queue.Queue.task_done: unfinished_tasks -= 1
QueueTaskDone(q) == unfinished' = [unfinished EXCEPT ![q] = @ - 1]

\* ------------------------------------------------------------------ state
IsTask(e) == e.wq # None

InitHist ==
    [ nsub        |-> 0,
      subWq       |-> [k \in TaskIds |-> None],
      subRet      |-> {},
      early       |-> {},
      acquired    |-> {},
      handled     |-> [k \in TaskIds |-> 0],
      invoked     |-> [k \in TaskIds |-> None],
      item        |-> [k \in TaskIds |-> None],
      startedOpen |-> [k \in TaskIds |-> FALSE],
      steps       |-> [k \in TaskIds |-> << >>],
      released    |-> {},
      acked       |-> {},
      sentPut     |-> 0,
      sentAcked   |-> 0,
      wsent       |-> [w \in Workers |-> 0],
      endCalls    |-> 0,
      endReturned |-> 0 ]

\* start_workers with a thread loop that runs once too often
StartWorkers_ExtraThread(n, f) ==
    /\ nworkers = n
    /\ poolFunc = f
    /\ items = [q \in Queues |-> << >>]
    /\ sem = [q \in Queues |-> IF q = Pool THEN n ELSE IF q = "c1" THEN 1 ELSE 0]
    /\ unfinished = [q \in Queues |-> 0]
    /\ wpc = [w \in Workers |-> IF w <= n + 1 THEN "get" ELSE "none"]

\* start_workers with a semaphore one permit larger than the worker count
StartWorkers_ExtraPermit(n, f) ==
    /\ nworkers = n
    /\ poolFunc = f
    /\ items = [q \in Queues |-> << >>]
    /\ sem = [q \in Queues |-> IF q = Pool THEN n + 1 ELSE IF q = "c1" THEN 1 ELSE 0]
    /\ unfinished = [q \in Queues |-> 0]
    /\ wpc = [w \in Workers |-> IF w <= n THEN "get" ELSE "none"]

\* Workers.start_workers(nworkers, func): the queue, then one thread per worker
StartWorkers(n, f) ==
    /\ nworkers = n
    /\ poolFunc = f
    /\ items = [q \in Queues |-> << >>]
    /\ sem = [q \in Queues |-> IF q = Pool THEN n ELSE IF q = "c1" THEN 1 ELSE 0]
    /\ unfinished = [q \in Queues |-> 0]
    /\ wpc = [w \in Workers |-> IF w <= n THEN "get" ELSE "none"]

InitFw ==
    [ sets   |-> 0,
      clears |-> 0,
      last   |-> "CLOSED",
      puts   |-> 0,
      why    |-> None,
      retries |-> 0,
      retried |-> {} ]

\* A scenario test before its first step: event = threading.Event(),
\* output = Queue(), no background thread started, K pods to take down
ScenarioState(k) ==
    /\ event = FALSE
    /\ kvalue = k
    /\ count = 0
    /\ opc = "idle"
    /\ thread = "unstarted"
    /\ cur = [n |-> 0, inwin |-> FALSE]
    /\ res = [i \in Ops |-> [out |-> None, inwin |-> FALSE]]
    /\ output = << >>
    /\ responses = << >>
    /\ rd = [r \in Readers |-> None]
    /\ fw = InitFw

\* The callers and locals of a pool of n workers on which nothing was called
PoolState(n) ==
    /\ StartWorkers(n, "f")
    /\ wcur = [w \in Workers |-> Sentinel]
    /\ witem = [w \in Workers |-> None]
    /\ cpc = [p \in Callers |-> "idle"]
    /\ ctarget = [p \in Callers |-> Pool]
    /\ citem = [p \in Callers |-> Sentinel]
    /\ csub = [p \in Callers |-> Sentinel]
    /\ e_i = 0
    /\ hist = InitHist

\* No polling loop entered yet
PollState ==
    /\ waited = 0
    /\ loopTime = 0

\* The class as it is defined: __instance = None, __instance_lock free, and
\* no thread inside one of its methods
SingletonState ==
    /\ instance = 0
    /\ instance_lock = None
    /\ spc = [t \in Clients |-> "idle"]
    /\ sargs = [t \in Clients |-> "()"]
    /\ sret = [t \in Clients |-> [op |-> None, out |-> None, val |-> 0]]
    /\ made = 0
    /\ resets = 0

\* Nothing of the test in progress has happened yet
InitLife == [down |-> {}, restored |-> << >>, out |-> None]

\* An attribute the instance has not assigned: the lookup falls to the class
NoAttr == [set |-> FALSE, val |-> << >>]

\* The class as setup_class leaves it: pod_name_list = list(), pod_dict =
\* dict(), restore_pod = None, and no test set up yet
ClassState ==
    /\ pod_name_list = << >>
    /\ pod_dict = << >>
    /\ self_pod_name_list = NoAttr
    /\ restore_pod = FALSE
    /\ tkvalue = 0
    /\ test = None
    /\ tpc = "idle"
    /\ pod_name = None
    /\ t_i = 0
    /\ r_i = 0
    /\ tests = 0
    /\ life = InitLife

\* No poll of the bucket wait loop made yet
InitPolls == [n |-> 0, seen |-> FALSE]

\* The test before it reaches the wait loop, with n buckets to wait for
BucketState(n) ==
    /\ bpc = "before"
    /\ now = 0
    /\ timeout = 0
    /\ bkt_cnt = n
    /\ bkt_list = 0
    /\ polls = InitPolls

Init ==
    /\ \E n \in 0..MaxWorkers : PoolState(n)
    /\ ScenarioState(1)
    /\ PollState
    /\ SingletonState
    /\ ClassState
    /\ BucketState(1)

\* The threads start_workers started (self.w_workers)
Threads == {w \in Workers : wpc[w] # "none"}

\* Thread.join returns for a thread whose run has ended, by break or by exception
Terminated(w) == wpc[w] \in {"exited", "raised", "dead"}

\* The workers inside wq.func(wi)
Executing == {w \in Workers : wpc[w] = "running"}

\* The pool entries a worker holds between its dequeue and its permit release
InProgress == {w \in Workers : wpc[w] \in {"cget", "running", "p_release"}}

\* Outstanding work has reached the bound of the pool queue
AtBound == LockReq(Pool) /\ Len(items[Pool]) + Cardinality(InProgress) >= Maxsize(Pool)

\* ---------------------------------------------------------------- callers
\* Each calling thread prepares its tasks on a child queue of its own
ChildOf(p) == IF p = "main" THEN "c1" ELSE "c2"

\* A caller prepares a task: optionally wq.put(v) on a child queue c, then
\* Workers.wenque(c).  Without the child put the child may be empty.
BeginSubmit(p, c, withItem, v) ==
    /\ cpc[p] = "idle"
    /\ hist.nsub < MaxTasks
    /\ LET k == hist.nsub + 1
           e == [id |-> k, wq |-> c]
       IN /\ csub' = [csub EXCEPT ![p] = e]
          /\ ctarget' = [ctarget EXCEPT ![p] = IF withItem THEN c ELSE Pool]
          /\ citem' = [citem EXCEPT ![p] = IF withItem THEN v ELSE e]
          /\ hist' = [hist EXCEPT !.nsub = k, !.subWq[k] = c]
    /\ cpc' = [cpc EXCEPT ![p] = "acquire"]
    /\ UNCHANGED <<nworkers, poolFunc, items, sem, unfinished, wpc, wcur, witem, e_i>>
    /\ UNCHANGED <<scenarioVars, pollVars, singletonVars, classVars, bucketVars>>

\* WorkQ.put, first statement, on whichever queue the caller is putting to
PutAcquire(p) ==
    /\ cpc[p] = "acquire"
    /\ SemAcquire(ctarget[p])
    /\ cpc' = [cpc EXCEPT ![p] = "enqueue"]
    /\ hist' = IF ctarget[p] = Pool /\ IsTask(citem[p]) /\ sem' # sem
               THEN [hist EXCEPT !.acquired = @ \cup {citem[p].id}]
               ELSE hist
    /\ UNCHANGED <<nworkers, poolFunc, items, unfinished, wpc, wcur, witem,
                   ctarget, citem, csub, e_i>>
    /\ UNCHANGED <<scenarioVars, pollVars, singletonVars, classVars, bucketVars>>

\* WorkQ.put, second statement, on a child queue; the caller goes on to wenque
ChildEnqueue(p) ==
    /\ cpc[p] = "enqueue"
    /\ ctarget[p] \in Children
    /\ QueuePut(ctarget[p], citem[p])
    /\ ctarget' = [ctarget EXCEPT ![p] = Pool]
    /\ citem' = [citem EXCEPT ![p] = csub[p]]
    /\ cpc' = [cpc EXCEPT ![p] = "acquire"]
    /\ UNCHANGED <<nworkers, poolFunc, sem, wpc, wcur, witem, csub, e_i, hist>>
    /\ UNCHANGED <<scenarioVars, pollVars, singletonVars, classVars, bucketVars>>

\* Workers.wenque: self.w_workq.put(item), second statement; wenque returns
WenqueEnqueue(p) ==
    /\ cpc[p] = "enqueue"
    /\ ctarget[p] = Pool
    /\ IsTask(citem[p])
    /\ QueuePut(Pool, citem[p])
    /\ cpc' = [cpc EXCEPT ![p] = "idle"]
    /\ citem' = [citem EXCEPT ![p] = Sentinel]
    /\ csub' = [csub EXCEPT ![p] = Sentinel]
    /\ hist' = [hist EXCEPT
                  !.subRet = @ \cup {citem[p].id}]
    /\ UNCHANGED <<nworkers, poolFunc, sem, wpc, wcur, witem, ctarget, e_i>>
    /\ UNCHANGED <<scenarioVars, pollVars, singletonVars, classVars, bucketVars>>

\* A sentinel loop that runs once too often
SentinelCount_OneMore == nworkers + 1

\* The number of sentinels end_workers puts: range(len(self.w_workers))
SentinelCount == nworkers

\* Workers.end_workers is called: the loop starts at i = 0
BeginEndWorkers ==
    /\ cpc["main"] = "idle"
    /\ hist.endCalls < MaxEndCalls
    /\ e_i' = 0
    /\ IF SentinelCount > 0
       THEN /\ cpc' = [cpc EXCEPT !["main"] = "acquire"]
            /\ ctarget' = [ctarget EXCEPT !["main"] = Pool]
            /\ citem' = [citem EXCEPT !["main"] = Sentinel]
       ELSE /\ cpc' = [cpc EXCEPT !["main"] = "join"]
            /\ UNCHANGED <<ctarget, citem>>
    /\ hist' = [hist EXCEPT !.endCalls = @ + 1, !.early = hist.subRet]
    /\ UNCHANGED <<nworkers, poolFunc, items, sem, unfinished, wpc, wcur, witem, csub>>
    /\ UNCHANGED <<scenarioVars, pollVars, singletonVars, classVars, bucketVars>>

\* end_workers: self.w_workq.put(None), second statement, and the loop test
SentinelEnqueue ==
    /\ cpc["main"] = "enqueue"
    /\ ctarget["main"] = Pool
    /\ ~IsTask(citem["main"])
    /\ QueuePut(Pool, Sentinel)
    /\ e_i' = e_i + 1
    /\ cpc' = [cpc EXCEPT !["main"] = IF e_i + 1 < SentinelCount THEN "acquire" ELSE "join"]
    /\ hist' = [hist EXCEPT !.sentPut = @ + 1]
    /\ UNCHANGED <<nworkers, poolFunc, sem, wpc, wcur, witem, ctarget, citem, csub>>
    /\ UNCHANGED <<scenarioVars, pollVars, singletonVars, classVars, bucketVars>>

\* end_workers without the wait of self.w_workq.join()
JoinQueue_NoWait ==
    /\ cpc["main"] = "join"
    /\ cpc' = [cpc EXCEPT !["main"] = "tjoin"]
    /\ UNCHANGED <<nworkers, poolFunc, items, sem, unfinished, wpc, wcur, witem,
                   ctarget, citem, csub, e_i, hist>>
    /\ UNCHANGED <<scenarioVars, pollVars, singletonVars, classVars, bucketVars>>

\* end_workers: self.w_workq.join() returns once unfinished_tasks is 0
JoinQueue ==
    /\ cpc["main"] = "join"
    /\ unfinished[Pool] = 0
    /\ cpc' = [cpc EXCEPT !["main"] = "tjoin"]
    /\ UNCHANGED <<nworkers, poolFunc, items, sem, unfinished, wpc, wcur, witem,
                   ctarget, citem, csub, e_i, hist>>
    /\ UNCHANGED <<scenarioVars, pollVars, singletonVars, classVars, bucketVars>>

\* end_workers: every self.w_workers[i].join() has returned; end_workers returns
JoinThreads ==
    /\ cpc["main"] = "tjoin"
    /\ \A w \in Threads : Terminated(w)
    /\ cpc' = [cpc EXCEPT !["main"] = "idle"]
    /\ hist' = [hist EXCEPT !.endReturned = @ + 1]
    /\ UNCHANGED <<nworkers, poolFunc, items, sem, unfinished, wpc, wcur, witem,
                   ctarget, citem, csub, e_i>>
    /\ UNCHANGED <<scenarioVars, pollVars, singletonVars, classVars, bucketVars>>

\* ---------------------------------------------------------------- workers
\* A get that takes the entry put last
WGet_Lifo(w) ==
    /\ wpc[w] = "get"
    /\ items[Pool] # << >>
    /\ LET n == Len(items[Pool])
           e == items[Pool][n]
       IN /\ items' = [items EXCEPT ![Pool] = SubSeq(@, 1, n - 1)]
          /\ wcur' = [wcur EXCEPT ![w] = e]
          /\ wpc' = [wpc EXCEPT ![w] = IF IsTask(e) THEN "cget" ELSE "s_release"]
          /\ hist' = IF IsTask(e) THEN hist ELSE [hist EXCEPT !.wsent[w] = @ + 1]
    /\ UNCHANGED <<nworkers, poolFunc, sem, unfinished, witem, cpc, ctarget, citem, csub, e_i>>
    /\ UNCHANGED <<scenarioVars, pollVars, singletonVars, classVars, bucketVars>>

\* wq = self.w_workq.get(); if wq is None
WGet(w) ==
    /\ wpc[w] = "get"
    /\ items[Pool] # << >>
    /\ LET e == Head(items[Pool])
       IN /\ items' = [items EXCEPT ![Pool] = Tail(@)]
          /\ wcur' = [wcur EXCEPT ![w] = e]
          /\ wpc' = [wpc EXCEPT ![w] = IF IsTask(e) THEN "cget" ELSE "s_release"]
          /\ hist' = IF IsTask(e) THEN hist ELSE [hist EXCEPT !.wsent[w] = @ + 1]
    /\ UNCHANGED <<nworkers, poolFunc, sem, unfinished, witem, cpc, ctarget, citem, csub, e_i>>
    /\ UNCHANGED <<scenarioVars, pollVars, singletonVars, classVars, bucketVars>>

\* The handler of the pool, were it the one called
Handler_PoolFunc(w) == Func(Pool)

\* wq.func: the function the worker calls is the dequeued child's
Handler(w) == Func(wcur[w].wq)

\* The worker takes the item but never calls wq.func on it
WChildGet_NoCall(w) ==
    /\ wpc[w] = "cget"
    /\ items[wcur[w].wq] # << >>
    /\ witem' = [witem EXCEPT ![w] = Head(items[wcur[w].wq])]
    /\ items' = [items EXCEPT ![wcur[w].wq] = Tail(@)]
    /\ wpc' = [wpc EXCEPT ![w] = "running"]
    /\ UNCHANGED <<nworkers, poolFunc, sem, unfinished, wcur, cpc, ctarget, citem, csub, e_i, hist>>
    /\ UNCHANGED <<scenarioVars, pollVars, singletonVars, classVars, bucketVars>>

\* wi = wq.get() blocks while the child queue is empty; then wq.func(wi) is entered
WChildGet(w) ==
    /\ wpc[w] = "cget"
    /\ items[wcur[w].wq] # << >>
    /\ witem' = [witem EXCEPT ![w] = Head(items[wcur[w].wq])]
    /\ items' = [items EXCEPT ![wcur[w].wq] = Tail(@)]
    /\ wpc' = [wpc EXCEPT ![w] = "running"]
    /\ hist' = [hist EXCEPT !.handled[wcur[w].id] = @ + 1,
                            !.invoked[wcur[w].id] = Handler(w),
                            !.item[wcur[w].id] = Head(items[wcur[w].wq]),
                            !.startedOpen[wcur[w].id] = event,
                            !.steps[wcur[w].id] = @ \o <<"wq.get", "wq.func">>]
    /\ UNCHANGED <<nworkers, poolFunc, sem, unfinished, wcur, cpc, ctarget, citem, csub, e_i>>
    /\ UNCHANGED <<scenarioVars, pollVars, singletonVars, classVars, bucketVars>>

\* wq.func(wi) raises: nothing in worker() catches it, the thread ends
WRaise(w) ==
    /\ wpc[w] = "running"
    /\ wpc' = [wpc EXCEPT ![w] = "raised"]
    /\ UNCHANGED <<nworkers, poolFunc, items, sem, unfinished, wcur, witem,
                   cpc, ctarget, citem, csub, e_i, hist>>
    /\ UNCHANGED <<scenarioVars, pollVars, singletonVars, classVars, bucketVars>>

\* wq.func(wi) returns and the worker goes on without wq.task_done()
WReturn_NoChildAck(w) ==
    /\ wpc[w] = "running"
    /\ wpc' = [wpc EXCEPT ![w] = "p_release"]
    /\ witem' = [witem EXCEPT ![w] = None]
    /\ UNCHANGED <<nworkers, poolFunc, items, sem, unfinished, wcur,
                   cpc, ctarget, citem, csub, e_i, hist>>
    /\ UNCHANGED <<scenarioVars, pollVars, singletonVars, classVars, bucketVars>>

\* wq.func(wi) returns; wq.task_done() on the child queue: release, then
\* queue.Queue.task_done
WReturn(w) ==
    /\ wpc[w] = "running"
    /\ SemRelease(wcur[w].wq)
    /\ IF AckFails(wcur[w].wq)
       THEN wpc' = [wpc EXCEPT ![w] = "dead"] /\ UNCHANGED <<unfinished, hist>>
       ELSE /\ wpc' = [wpc EXCEPT ![w] = "p_release"]
            /\ QueueTaskDone(wcur[w].wq)
            /\ hist' = [hist EXCEPT !.steps[wcur[w].id] = Append(@, "wq.task_done")]
    /\ witem' = [witem EXCEPT ![w] = None]
    /\ UNCHANGED <<nworkers, poolFunc, items, wcur,
                   cpc, ctarget, citem, csub, e_i>>
    /\ UNCHANGED <<scenarioVars, pollVars, singletonVars, classVars, bucketVars>>

\* self.w_workq.task_done() after a task, first statement
WPoolRelease(w) ==
    /\ wpc[w] = "p_release"
    /\ SemRelease(Pool)
    /\ wpc' = [wpc EXCEPT ![w] = "p_ack"]
    /\ hist' = IF sem' # sem THEN [hist EXCEPT !.released = @ \cup {wcur[w].id}] ELSE hist
    /\ UNCHANGED <<nworkers, poolFunc, items, unfinished, wcur, witem,
                   cpc, ctarget, citem, csub, e_i>>
    /\ UNCHANGED <<scenarioVars, pollVars, singletonVars, classVars, bucketVars>>

\* self.w_workq.task_done() after a task, second statement; back to the loop head
WPoolAck(w) ==
    /\ wpc[w] = "p_ack"
    /\ IF AckFails(Pool)
       THEN wpc' = [wpc EXCEPT ![w] = "dead"] /\ UNCHANGED <<unfinished, hist>>
       ELSE /\ wpc' = [wpc EXCEPT ![w] = "get"]
            /\ QueueTaskDone(Pool)
            /\ hist' = [hist EXCEPT !.acked = @ \cup {wcur[w].id},
                                    !.steps[wcur[w].id] = Append(@, "w_workq.task_done")]
    /\ wcur' = [wcur EXCEPT ![w] = Sentinel]
    /\ UNCHANGED <<nworkers, poolFunc, items, sem, witem,
                   cpc, ctarget, citem, csub, e_i>>
    /\ UNCHANGED <<scenarioVars, pollVars, singletonVars, classVars, bucketVars>>

\* self.w_workq.task_done() after a sentinel, first statement
WSentinelRelease(w) ==
    /\ wpc[w] = "s_release"
    /\ SemRelease(Pool)
    /\ wpc' = [wpc EXCEPT ![w] = "s_ack"]
    /\ UNCHANGED <<nworkers, poolFunc, items, unfinished, wcur, witem,
                   cpc, ctarget, citem, csub, e_i, hist>>
    /\ UNCHANGED <<scenarioVars, pollVars, singletonVars, classVars, bucketVars>>

\* self.w_workq.task_done() after a sentinel, second statement; break
WSentinelAck(w) ==
    /\ wpc[w] = "s_ack"
    /\ IF AckFails(Pool)
       THEN wpc' = [wpc EXCEPT ![w] = "dead"] /\ UNCHANGED <<unfinished, hist>>
       ELSE /\ wpc' = [wpc EXCEPT ![w] = "exited"]
            /\ QueueTaskDone(Pool)
            /\ hist' = [hist EXCEPT !.sentAcked = @ + 1]
    /\ UNCHANGED <<nworkers, poolFunc, items, sem, wcur, witem,
                   cpc, ctarget, citem, csub, e_i>>
    /\ UNCHANGED <<scenarioVars, pollVars, singletonVars, classVars, bucketVars>>

Next ==
    \/ \E p \in Callers, b \in BOOLEAN, v \in Payloads : BeginSubmit(p, ChildOf(p), b, v)
    \/ \E p \in Callers : PutAcquire(p)
    \/ \E p \in Callers : ChildEnqueue(p)
    \/ \E p \in Callers : WenqueEnqueue(p)
    \/ BeginEndWorkers
    \/ SentinelEnqueue
    \/ JoinQueue
    \/ JoinThreads
    \/ \E w \in Threads : WGet(w)
    \/ \E w \in Threads : WChildGet(w)
    \/ \E w \in Threads : WReturn(w)
    \/ \E w \in Threads : WRaise(w)
    \/ \E w \in Threads : WPoolRelease(w)
    \/ \E w \in Threads : WPoolAck(w)
    \/ \E w \in Threads : WSentinelRelease(w)
    \/ \E w \in Threads : WSentinelAck(w)

Spec == Init /\ [][Next]_vars

\* ------------------------------------------------- the pool, fairly scheduled
\* A pool of one worker or more, whose callers put an item on the child queue
\* of every task, whose handlers return, whose end_workers is called once and
\* on which no wenque is called once end_workers has been
InitLive ==
    /\ \E n \in 1..MaxWorkers : PoolState(n)
    /\ ScenarioState(1)
    /\ PollState
    /\ SingletonState
    /\ ClassState
    /\ BucketState(1)

\* wq.put(v) on the caller's child queue, Workers.wenque(wq) to follow
LSubmit(p) ==
    /\ hist.endCalls = 0
    /\ \E v \in Payloads : BeginSubmit(p, ChildOf(p), TRUE, v)

\* The child put returns and Workers.wenque is called
LWenque(p) ==
    /\ hist.endCalls = 0
    /\ ChildEnqueue(p)

\* Workers.end_workers is called, once
LEndWorkers ==
    /\ hist.endCalls = 0
    /\ BeginEndWorkers

\* A step of calling thread p
CallerStep(p) ==
    \/ LSubmit(p)
    \/ PutAcquire(p)
    \/ LWenque(p)
    \/ WenqueEnqueue(p)

\* A step of the thread inside end_workers
EndWorkersStep ==
    \/ PutAcquire("main")
    \/ SentinelEnqueue
    \/ JoinQueue
    \/ JoinThreads

\* A step of worker thread w
WorkerStep(w) ==
    \/ WGet(w)
    \/ WChildGet(w)
    \/ WReturn(w)
    \/ WPoolRelease(w)
    \/ WPoolAck(w)
    \/ WSentinelRelease(w)
    \/ WSentinelAck(w)

NextLive ==
    \/ \E p \in Callers : CallerStep(p)
    \/ LEndWorkers
    \/ EndWorkersStep
    \/ \E w \in Threads : WorkerStep(w)

\* Every thread that can take a step is scheduled in the end
FairThreads ==
    /\ \A p \in Callers : WF_vars(CallerStep(p))
    /\ WF_vars(EndWorkersStep)
    /\ \A w \in Workers : WF_vars(w \in Threads /\ WorkerStep(w))

SpecLive == InitLive /\ [][NextLive]_vars /\ FairThreads

\* ----------------------------------------------------------- fault window
\* threading.Event holds one flag; read as the window's state
StateOf(flag) == IF flag THEN "OPEN" ELSE "CLOSED"

\* event.set(): the flag becomes true whatever it was; nothing is raised
EventSet == event' = TRUE

\* A clear that leaves the flag as it was
EventClear_Lost == event' = event

\* event.clear(): the flag becomes false
EventClear == event' = FALSE

\* event.is_set() in a background thread: the flag as it is now
EventIsSet == StateOf(event)

\* --------------------------------------------------- scenario orchestrator
\* test_copy_object_during_kpods_down, step 2: thread.start()
OStart ==
    /\ opc = "idle"
    /\ thread' = "running"
    /\ opc' = "inject"
    /\ UNCHANGED <<event, kvalue, count, cur, res, output, responses, rd, fw>>
    /\ UNCHANGED <<poolVars, pollVars, singletonVars, classVars, bucketVars>>

\* The shutdown of the K pods as test_ios_during_kpods_down has it inline:
\* event.set() comes first.  An operation in progress now overlaps the window.
OSet ==
    /\ opc = "inject"
    /\ EventSet
    /\ opc' = "loop"
    /\ cur' = IF cur.n # 0 THEN [cur EXCEPT !.inwin = TRUE] ELSE cur
    /\ fw' = [fw EXCEPT !.sets = @ + 1, !.last = "OPEN"]
    /\ UNCHANGED <<kvalue, count, thread, res, output, responses, rd>>
    /\ UNCHANGED <<poolVars, pollVars, singletonVars, classVars, bucketVars>>

\* The for loop ends at once, before any pod is deleted
LoopDone_AtOnce == TRUE

\* for count, pod_name in enumerate(self.pod_name_list): the K sampled pods
LoopDone == count = kvalue

\* One pass of the loop: delete_deployment, then assert_false(resp[0]); a
\* deletion that failed aborts the test where it stands
ODelete(ok) ==
    /\ opc = "loop"
    /\ ~LoopDone
    /\ IF ok
       THEN count' = count + 1 /\ UNCHANGED <<opc, fw>>
       ELSE opc' = "failed" /\ fw' = [fw EXCEPT !.why = "delete"] /\ UNCHANGED count
    /\ UNCHANGED <<event, kvalue, thread, cur, res, output, responses, rd>>
    /\ UNCHANGED <<poolVars, pollVars, singletonVars, classVars, bucketVars>>

\* The test goes back to the shutdown after the clear
AfterClear_Reopen == "inject"

\* After event.clear() the test checks the cluster
AfterClear == "check"

\* event.clear() once the loop is over
OClear ==
    /\ opc = "loop"
    /\ LoopDone
    /\ EventClear
    /\ opc' = AfterClear
    /\ fw' = [fw EXCEPT !.clears = @ + 1, !.last = "CLOSED"]
    /\ UNCHANGED <<kvalue, count, thread, cur, res, output, responses, rd>>
    /\ UNCHANGED <<poolVars, pollVars, singletonVars, classVars, bucketVars>>

\* The cluster and service status assertions after the shutdown
OCheck(ok) ==
    /\ opc = "check"
    /\ IF ok
       THEN opc' = "join" /\ UNCHANGED fw
       ELSE opc' = "failed" /\ fw' = [fw EXCEPT !.why = "check"]
    /\ UNCHANGED <<event, kvalue, count, thread, cur, res, output, responses, rd>>
    /\ UNCHANGED <<poolVars, pollVars, singletonVars, classVars, bucketVars>>

\* A join that does not wait for the thread
OJoin_NoWait ==
    /\ opc = "join"
    /\ opc' = "get"
    /\ responses' = << >>
    /\ UNCHANGED <<event, kvalue, count, thread, cur, res, output, rd, fw>>
    /\ UNCHANGED <<poolVars, pollVars, singletonVars, classVars, bucketVars>>

\* thread.join(), without timeout: returns once the thread has ended;
\* then responses = tuple()
OJoin ==
    /\ opc = "join"
    /\ thread \in {"exited", "died"}
    /\ opc' = "get"
    /\ responses' = << >>
    /\ UNCHANGED <<event, kvalue, count, thread, cur, res, output, rd, fw>>
    /\ UNCHANGED <<poolVars, pollVars, singletonVars, classVars, bucketVars>>

\* A loop that any message ends
Incomplete_Never(msg) == FALSE

\* while len(responses) < 3
Incomplete(msg) == Len(msg) < 3

\* responses = output.get(timeout=...) returns a message
OGet ==
    /\ opc = "get"
    /\ output # << >>
    /\ responses' = Head(output)
    /\ output' = Tail(output)
    /\ opc' = IF Incomplete(Head(output)) THEN "get" ELSE "verdict"
    /\ UNCHANGED <<event, kvalue, count, thread, cur, res, rd, fw>>
    /\ UNCHANGED <<poolVars, pollVars, singletonVars, classVars, bucketVars>>

\* output.get(timeout=...) on a queue that stays empty raises queue.Empty
OTimeout ==
    /\ opc = "get"
    /\ output = << >>
    /\ opc' = "failed"
    /\ fw' = [fw EXCEPT !.why = "Empty"]
    /\ UNCHANGED <<event, kvalue, count, thread, cur, res, output, responses, rd>>
    /\ UNCHANGED <<poolVars, pollVars, singletonVars, classVars, bucketVars>>

\* The branches taken with the expected failures looked at first
Verdict_ExpectedFirst(exp, failed) ==
    IF Cardinality(exp) = 0 /\ Cardinality(failed) = 0 THEN "passed"
    ELSE IF exp # {} THEN "retry"
    ELSE IF failed # {} THEN "failed"
    ELSE "passed"

\* if len(exp) == 0 and len(failed) == 0 / elif failed / elif exp
Verdict(exp, failed) ==
    IF Cardinality(exp) = 0 /\ Cardinality(failed) = 0 THEN "passed"
    ELSE IF failed # {} THEN "failed"
    ELSE IF exp # {} THEN "retry"
    ELSE "passed"

\* exp_fail_bkt_obj_dict = responses[1]; failed_bkts = responses[2]; branch
OVerdict ==
    /\ opc = "verdict"
    /\ opc' = Verdict(responses[2], responses[3])
    /\ fw' = IF opc' = "failed" THEN [fw EXCEPT !.why = "failed_bkts"] ELSE fw
    /\ UNCHANGED <<event, kvalue, count, thread, cur, res, output, responses, rd>>
    /\ UNCHANGED <<poolVars, pollVars, singletonVars, classVars, bucketVars>>

\* The retry taking every operation of the run again
RetryItems_All == Ops

\* bkt_obj_dict=exp_fail_bkt_obj_dict: what the retry is called on
RetryItems == responses[2]

\* Step 4.1: the copy is retried on the expected failures; assert_true(resp[0])
ORetry(ok) ==
    /\ opc = "retry"
    /\ opc' = IF ok THEN "passed" ELSE "failed"
    /\ fw' = [fw EXCEPT !.retries = @ + 1,
                        !.retried = RetryItems,
                        !.why = IF ok THEN @ ELSE "retry"]
    /\ UNCHANGED <<event, kvalue, count, thread, cur, res, output, responses, rd>>
    /\ UNCHANGED <<poolVars, pollVars, singletonVars, classVars, bucketVars>>

\* -------------------------------------------------------- background thread
\* The results the thread has so far: failures of operations that overlapped
\* the window are expected, the other failures are not
ExpFailed == {i \in Ops : res[i].out = "fail" /\ res[i].inwin}

Failed == {i \in Ops : res[i].out = "fail" /\ ~res[i].inwin}

\* The one message the thread reports with
Report == <<"put_etag", ExpFailed, Failed>>

\* The thread starts its next operation
DBegin ==
    /\ thread = "running"
    /\ cur.n = 0
    /\ \E i \in Ops :
          /\ res[i].out = None
          /\ \A j \in 1..(i - 1) : res[j].out # None
          /\ cur' = [n |-> i, inwin |-> event]
    /\ UNCHANGED <<event, kvalue, count, opc, thread, res, output, responses, rd, fw>>
    /\ UNCHANGED <<poolVars, pollVars, singletonVars, classVars, bucketVars>>

\* The operation ends, well or not
DEnd(ok) ==
    /\ thread = "running"
    /\ cur.n # 0
    /\ res' = [res EXCEPT ![cur.n] = [out |-> IF ok THEN "pass" ELSE "fail",
                                      inwin |-> cur.inwin]]
    /\ cur' = [n |-> 0, inwin |-> FALSE]
    /\ UNCHANGED <<event, kvalue, count, opc, thread, output, responses, rd, fw>>
    /\ UNCHANGED <<poolVars, pollVars, singletonVars, classVars, bucketVars>>

\* The thread completes: output.put(report), once
DPut ==
    /\ thread = "running"
    /\ cur.n = 0
    /\ output' = Append(output, Report)
    /\ thread' = "reported"
    /\ fw' = [fw EXCEPT !.puts = @ + 1]
    /\ UNCHANGED <<event, kvalue, count, opc, cur, res, responses, rd>>
    /\ UNCHANGED <<poolVars, pollVars, singletonVars, classVars, bucketVars>>

\* The thread's target returns
DExit ==
    /\ thread = "reported"
    /\ thread' = "exited"
    /\ UNCHANGED <<event, kvalue, count, opc, cur, res, output, responses, rd, fw>>
    /\ UNCHANGED <<poolVars, pollVars, singletonVars, classVars, bucketVars>>

\* The thread dies of an exception, reporting nothing
DDie ==
    /\ thread = "running"
    /\ thread' = "died"
    /\ UNCHANGED <<event, kvalue, count, opc, cur, res, output, responses, rd, fw>>
    /\ UNCHANGED <<poolVars, pollVars, singletonVars, classVars, bucketVars>>

\* The thread blocks for good inside an operation
DHang ==
    /\ thread = "running"
    /\ cur.n # 0
    /\ thread' = "hung"
    /\ UNCHANGED <<event, kvalue, count, opc, cur, res, output, responses, rd, fw>>
    /\ UNCHANGED <<poolVars, pollVars, singletonVars, classVars, bucketVars>>

\* A step of the orchestrating thread while it waits for the report
OrchWait == OJoin \/ OGet \/ OTimeout

InitScenario ==
    /\ PoolState(0)
    /\ \E k \in 1..MaxK : ScenarioState(k)
    /\ PollState
    /\ SingletonState
    /\ ClassState
    /\ BucketState(1)

NextScenario ==
    \/ OStart
    \/ OSet
    \/ \E ok \in BOOLEAN : ODelete(ok)
    \/ OClear
    \/ \E ok \in BOOLEAN : OCheck(ok)
    \/ OJoin
    \/ OGet
    \/ OTimeout
    \/ OVerdict
    \/ \E ok \in BOOLEAN : ORetry(ok)
    \/ DBegin
    \/ \E ok \in BOOLEAN : DEnd(ok)
    \/ DPut
    \/ DExit
    \/ DDie
    \/ DHang

SpecScenario == InitScenario /\ [][NextScenario]_vars

\* --------------------------------------------- the event under any callers
\* The writing thread calls event.set()
SignalOpen ==
    /\ fw.sets < MaxSignals
    /\ EventSet
    /\ fw' = [fw EXCEPT !.sets = @ + 1, !.last = "OPEN"]
    /\ UNCHANGED <<kvalue, count, opc, thread, cur, res, output, responses, rd>>
    /\ UNCHANGED <<poolVars, pollVars, singletonVars, classVars, bucketVars>>

\* The writing thread calls event.clear()
SignalClose ==
    /\ fw.clears < MaxSignals
    /\ EventClear
    /\ fw' = [fw EXCEPT !.clears = @ + 1, !.last = "CLOSED"]
    /\ UNCHANGED <<kvalue, count, opc, thread, cur, res, output, responses, rd>>
    /\ UNCHANGED <<poolVars, pollVars, singletonVars, classVars, bucketVars>>

\* Reader thread r calls event.is_set()
IsOpen(r) ==
    /\ rd' = [rd EXCEPT ![r] = EventIsSet]
    /\ UNCHANGED <<event, kvalue, count, opc, thread, cur, res, output, responses, fw>>
    /\ UNCHANGED <<poolVars, pollVars, singletonVars, classVars, bucketVars>>

NextWindow ==
    \/ SignalOpen
    \/ SignalClose
    \/ \E r \in Readers : IsOpen(r)

SpecWindow == InitScenario /\ [][NextWindow]_vars

\* ------------------------------------------------------- the polling loop
\* The loop "while len(responses) < 3: responses = output.get(timeout=...)"
\* with a clock: each tick is a part of the configured delay spent blocked in
\* output.get.  Messages are put on the queue while the loop runs, some of
\* the awaited shape and some not.
Partial == <<"put_etag">>

Complete == <<"put_etag", {}, {}>>

\* An empty tuple, as responses = tuple() is before the loop
Nothing == << >>

\* The orchestrator enters the loop: responses = tuple(), nothing waited yet
InitPoll ==
    /\ PoolState(0)
    /\ SingletonState
    /\ ClassState
    /\ BucketState(1)
    /\ PollState
    /\ event = FALSE
    /\ kvalue = 1
    /\ count = 1
    /\ opc = "get"
    /\ thread = "exited"
    /\ cur = [n |-> 0, inwin |-> FALSE]
    /\ res = [i \in Ops |-> [out |-> None, inwin |-> FALSE]]
    /\ output = << >>
    /\ responses = << >>
    /\ rd = [r \in Readers |-> None]
    /\ fw = InitFw

\* A producer puts a message on the queue
PArrive(msg) ==
    /\ fw.puts < MaxMsgs
    /\ output' = Append(output, msg)
    /\ fw' = [fw EXCEPT !.puts = @ + 1]
    /\ UNCHANGED <<event, kvalue, count, opc, thread, cur, res, responses, rd>>
    /\ UNCHANGED <<poolVars, pollVars, singletonVars, classVars, bucketVars>>

\* Time passes while output.get(timeout=...) blocks on the empty queue
PTick ==
    /\ opc = "get"
    /\ output = << >>
    /\ waited < DelayTicks
    /\ waited' = waited + 1
    /\ loopTime' = loopTime + 1
    /\ UNCHANGED <<poolVars, scenarioVars, singletonVars, classVars, bucketVars>>

\* output.get(timeout=...) returns a message; while the message is not of the
\* awaited shape the loop calls output.get(timeout=...) again, and the call
\* starts with none of its timeout spent
PGet ==
    /\ opc = "get"
    /\ output # << >>
    /\ responses' = Head(output)
    /\ output' = Tail(output)
    /\ opc' = IF Incomplete(Head(output)) THEN "get" ELSE "verdict"
    /\ waited' = 0
    /\ UNCHANGED loopTime
    /\ UNCHANGED <<event, kvalue, count, thread, cur, res, rd, fw>>
    /\ UNCHANGED <<poolVars, singletonVars, classVars, bucketVars>>

\* output.get(timeout=...) has blocked for the whole delay: queue.Empty
PEmpty ==
    /\ opc = "get"
    /\ output = << >>
    /\ waited = DelayTicks
    /\ opc' = "failed"
    /\ fw' = [fw EXCEPT !.why = "Empty"]
    /\ UNCHANGED <<event, kvalue, count, thread, cur, res, output, responses, rd>>
    /\ UNCHANGED <<poolVars, pollVars, singletonVars, classVars, bucketVars>>

\* if not responses
NoReport(msg) == Len(msg) = 0

\* The test after the loop: if not responses: assert_true(False, "Background
\* process failed to do copy object"); else the report is taken apart
PCheck ==
    /\ opc = "verdict"
    /\ IF NoReport(responses)
       THEN opc' = "failed" /\ fw' = [fw EXCEPT !.why = "Background process failed"]
       ELSE opc' = "checked" /\ UNCHANGED fw
    /\ UNCHANGED <<event, kvalue, count, thread, cur, res, output, responses, rd>>
    /\ UNCHANGED <<poolVars, pollVars, singletonVars, classVars, bucketVars>>

NextPoll ==
    \/ \E msg \in {Nothing, Partial, Complete} : PArrive(msg)
    \/ PTick
    \/ PGet
    \/ PEmpty
    \/ PCheck

SpecPoll == InitPoll /\ [][NextPoll]_vars

\* ---------------------------------------------------------- SingletonMixin
\* ReportClient(SingletonMixin) under client threads that call the four class
\* methods.  Instances are numbered by the constructor call that made them.
NotInitialized == "CT_SINGLETON_NOT_INITIALIZED"

\* The two ways the class is called: with no argument, and as
\* init_report_client does, with init_params=None
ArgLists == {"()", "init_params=None"}

\* cls(*args, **kwargs): ReportClient.__init__(self) takes no argument, and a
\* call with the keyword init_params raises TypeError
Constructor(args) == IF args = "()" THEN "return" ELSE "TypeError"

\* The threads that may still call the constructor
ToConstruct ==
    {u \in Clients : spc[u] \in {"i_check", "i_lock", "i_check2", "i_construct",
                                 "r_lock", "r_check", "r_construct"}}

\* The result a method call of thread t ends with
Result(op, out, val) == [op |-> op, out |-> out, val |-> val]

\* Thread t calls get_instance, init_instance, reinit_instance or clear_instance
SCall(t, op, args) ==
    /\ spc[t] = "idle"
    /\ op \in {"init_instance", "reinit_instance"} =>
          made + Cardinality(ToConstruct) < MaxMade
    /\ spc' = [spc EXCEPT ![t] = CASE op = "get_instance" -> "g_check"
                                    [] op = "init_instance" -> "i_check"
                                    [] op = "reinit_instance" -> "r_lock"
                                    [] op = "clear_instance" -> "c_lock"]
    /\ sargs' = [sargs EXCEPT ![t] = args]
    /\ resets' = IF op \in {"reinit_instance", "clear_instance"} THEN 1 ELSE resets
    /\ UNCHANGED <<instance, instance_lock, sret, made>>
    /\ UNCHANGED <<poolVars, scenarioVars, pollVars, classVars, bucketVars>>

\* get_instance: if not cls.__instance: raise CTException(...)
GetCheck(t) ==
    /\ spc[t] = "g_check"
    /\ IF instance = 0
       THEN /\ spc' = [spc EXCEPT ![t] = "idle"]
            /\ sret' = [sret EXCEPT ![t] = Result("get_instance", NotInitialized, 0)]
       ELSE /\ spc' = [spc EXCEPT ![t] = "g_return"]
            /\ UNCHANGED sret
    /\ UNCHANGED <<instance, instance_lock, sargs, made, resets>>
    /\ UNCHANGED <<poolVars, scenarioVars, pollVars, classVars, bucketVars>>

\* get_instance: return cls.__instance, read anew
GetReturn(t) ==
    /\ spc[t] = "g_return"
    /\ spc' = [spc EXCEPT ![t] = "idle"]
    /\ sret' = [sret EXCEPT ![t] = Result("get_instance", "return", instance)]
    /\ UNCHANGED <<instance, instance_lock, sargs, made, resets>>
    /\ UNCHANGED <<poolVars, scenarioVars, pollVars, classVars, bucketVars>>

\* init_instance: if cls.__instance: return, before the lock is taken
InitCheck(t) ==
    /\ spc[t] = "i_check"
    /\ IF instance # 0
       THEN /\ spc' = [spc EXCEPT ![t] = "idle"]
            /\ sret' = [sret EXCEPT ![t] = Result("init_instance", "return", 0)]
       ELSE /\ spc' = [spc EXCEPT ![t] = "i_lock"]
            /\ UNCHANGED sret
    /\ UNCHANGED <<instance, instance_lock, sargs, made, resets>>
    /\ UNCHANGED <<poolVars, scenarioVars, pollVars, classVars, bucketVars>>

\* with cls.__instance_lock: entered once the lock is free
SLock(t) ==
    /\ spc[t] \in {"i_lock", "r_lock", "c_lock"}
    /\ instance_lock = None
    /\ instance_lock' = t
    /\ spc' = [spc EXCEPT ![t] = CASE spc[t] = "i_lock" -> "i_check2"
                                    [] spc[t] = "r_lock" -> "r_check"
                                    [] spc[t] = "c_lock" -> "c_check"]
    /\ UNCHANGED <<instance, sargs, sret, made, resets>>
    /\ UNCHANGED <<poolVars, scenarioVars, pollVars, classVars, bucketVars>>

\* init_instance: if cls.__instance: return, under the lock; the with
\* statement releases the lock on the way out
InitCheck2(t) ==
    /\ spc[t] = "i_check2"
    /\ IF instance # 0
       THEN /\ spc' = [spc EXCEPT ![t] = "idle"]
            /\ instance_lock' = None
            /\ sret' = [sret EXCEPT ![t] = Result("init_instance", "return", 0)]
       ELSE /\ spc' = [spc EXCEPT ![t] = "i_construct"]
            /\ UNCHANGED <<instance_lock, sret>>
    /\ UNCHANGED <<instance, sargs, made, resets>>
    /\ UNCHANGED <<poolVars, scenarioVars, pollVars, classVars, bucketVars>>

\* reinit_instance: if not cls.__instance: raise, under the lock
ReinitCheck(t) ==
    /\ spc[t] = "r_check"
    /\ IF instance = 0
       THEN /\ spc' = [spc EXCEPT ![t] = "idle"]
            /\ instance_lock' = None
            /\ sret' = [sret EXCEPT ![t] = Result("reinit_instance", NotInitialized, 0)]
       ELSE /\ spc' = [spc EXCEPT ![t] = "r_construct"]
            /\ UNCHANGED <<instance_lock, sret>>
    /\ UNCHANGED <<instance, sargs, made, resets>>
    /\ UNCHANGED <<poolVars, scenarioVars, pollVars, classVars, bucketVars>>

\* cls(*args, **kwargs) is called, in init_instance or in reinit_instance; an
\* exception leaves the with statement, which releases the lock
SConstruct(t) ==
    /\ spc[t] \in {"i_construct", "r_construct"}
    /\ made' = made + 1
    /\ LET op == IF spc[t] = "i_construct" THEN "init_instance" ELSE "reinit_instance"
       IN IF Constructor(sargs[t]) = "return"
          THEN /\ spc' = [spc EXCEPT ![t] = IF spc[t] = "i_construct" THEN "i_store"
                                                                       ELSE "r_store"]
               /\ UNCHANGED <<instance_lock, sret>>
          ELSE /\ spc' = [spc EXCEPT ![t] = "idle"]
               /\ instance_lock' = None
               /\ sret' = [sret EXCEPT ![t] = Result(op, Constructor(sargs[t]), 0)]
    /\ UNCHANGED <<instance, sargs, resets>>
    /\ UNCHANGED <<poolVars, scenarioVars, pollVars, classVars, bucketVars>>

\* cls.__instance = <the object just made>; the with statement ends
SStore(t) ==
    /\ spc[t] \in {"i_store", "r_store"}
    /\ instance' = made
    /\ instance_lock' = None
    /\ spc' = [spc EXCEPT ![t] = "idle"]
    /\ sret' = [sret EXCEPT ![t] = Result(IF spc[t] = "i_store" THEN "init_instance"
                                                                 ELSE "reinit_instance",
                                          "return", 0)]
    /\ UNCHANGED <<sargs, made, resets>>
    /\ UNCHANGED <<poolVars, scenarioVars, pollVars, classVars, bucketVars>>

\* A clear_instance that leaves the instance where it is
ClearCheck_NoReset(t) ==
    /\ spc[t] = "c_check"
    /\ spc' = [spc EXCEPT ![t] = "idle"]
    /\ instance_lock' = None
    /\ sret' = [sret EXCEPT ![t] =
                  Result("clear_instance",
                         IF instance = 0 THEN NotInitialized ELSE "return", 0)]
    /\ UNCHANGED <<instance, sargs, made, resets>>
    /\ UNCHANGED <<poolVars, scenarioVars, pollVars, classVars, bucketVars>>

\* clear_instance: raise if not cls.__instance, else cls.__instance = None
ClearCheck(t) ==
    /\ spc[t] = "c_check"
    /\ spc' = [spc EXCEPT ![t] = "idle"]
    /\ instance_lock' = None
    /\ IF instance = 0
       THEN /\ sret' = [sret EXCEPT ![t] = Result("clear_instance", NotInitialized, 0)]
            /\ UNCHANGED instance
       ELSE /\ sret' = [sret EXCEPT ![t] = Result("clear_instance", "return", 0)]
            /\ instance' = 0
    /\ UNCHANGED <<sargs, made, resets>>
    /\ UNCHANGED <<poolVars, scenarioVars, pollVars, classVars, bucketVars>>

NextSingleton ==
    \/ \E t \in Clients, a \in ArgLists :
          \E op \in {"init_instance", "reinit_instance"} : SCall(t, op, a)
    \/ \E t \in Clients :
          \E op \in {"get_instance", "clear_instance"} : SCall(t, op, "()")
    \/ \E t \in Clients : GetCheck(t)
    \/ \E t \in Clients : GetReturn(t)
    \/ \E t \in Clients : InitCheck(t)
    \/ \E t \in Clients : SLock(t)
    \/ \E t \in Clients : InitCheck2(t)
    \/ \E t \in Clients : ReinitCheck(t)
    \/ \E t \in Clients : SConstruct(t)
    \/ \E t \in Clients : SStore(t)
    \/ \E t \in Clients : ClearCheck(t)

InitSingleton ==
    /\ PoolState(0)
    /\ ScenarioState(1)
    /\ PollState
    /\ SingletonState
    /\ ClassState
    /\ BucketState(1)

SpecSingleton == InitSingleton /\ [][NextSingleton]_vars

\* ------------------------------------------- the test class and its pods
\* The three shapes of pod shutdown in the class: the helper's pods recorded
\* after it returned, a loop that records the name before it deletes, and a
\* loop over a list the instance assigned before it
TestNames == {"test_degraded_reads_kpods_failure", "test_k_rc_pod_fail",
              "test_ios_during_kpods_down"}

\* The elements of a list
Range(l) == {l[i] : i \in 1..Len(l)}

\* The lists that hold each pod of S once
Orders(S) == {l \in [1..Cardinality(S) -> S] : Range(l) = S}

\* pod_data as the tests build it: hostname, deployment_backup, deployment_name
PodData(p) == <<"hostname", "deployment_backup", p>>

\* d[k] = v of a dict
DictSet(d, k, v) == [n \in (DOMAIN d) \cup {k} |-> IF n = k THEN v ELSE d[n]]

\* self.pod_name_list: the instance's attribute if it assigned one, else the class's
AttrPodNameList ==
    IF self_pod_name_list.set THEN self_pod_name_list.val ELSE pod_name_list

\* self.pod_name_list.append(p), and the same for each name of a list l: the
\* list object the lookup finds is changed in place
PodNameListExtend(l) ==
    IF self_pod_name_list.set
    THEN /\ self_pod_name_list' = [self_pod_name_list EXCEPT !.val = @ \o l]
         /\ UNCHANGED pod_name_list
    ELSE /\ pod_name_list' = pod_name_list \o l
         /\ UNCHANGED self_pod_name_list

\* pytest makes a new instance for the test and runs setup_method on it; t is
\* the test, k the parity the cluster reports
SetupMethod(t, k) ==
    /\ tpc = "idle"
    /\ tests < MaxTests
    /\ tests' = tests + 1
    /\ test' = t
    /\ tkvalue' = k
    /\ restore_pod' = FALSE
    /\ self_pod_name_list' = NoAttr
    /\ pod_name' = None
    /\ t_i' = 0
    /\ r_i' = 0
    /\ life' = InitLife
    /\ tpc' = "test"
    /\ UNCHANGED <<pod_name_list, pod_dict>>
    /\ UNCHANGED <<poolVars, scenarioVars, pollVars, singletonVars, bucketVars>>

\* test_degraded_reads_kpods_failure, step 2: the helper shut down the pods
\* of l (resp[1], empty when it failed); the names and their data are
\* recorded one after the other, then restore_pod is set
HelperShutdown(l) ==
    /\ tpc = "test"
    /\ test = "test_degraded_reads_kpods_failure"
    /\ Len(l) <= tkvalue
    /\ IF l = << >>
       THEN UNCHANGED <<pod_name_list, pod_dict, self_pod_name_list, restore_pod, life>>
       ELSE /\ PodNameListExtend(l)
            /\ pod_dict' = [n \in (DOMAIN pod_dict) \cup Range(l) |->
                                IF n \in Range(l) THEN PodData(n) ELSE pod_dict[n]]
            /\ restore_pod' = TRUE
            /\ life' = [life EXCEPT !.down = Range(l)]
    /\ tpc' = "teardown"
    /\ UNCHANGED <<tkvalue, test, pod_name, t_i, r_i, tests>>
    /\ UNCHANGED <<poolVars, scenarioVars, pollVars, singletonVars, bucketVars>>

\* test_k_rc_pod_fail, head of the while loop: the data pod p of the RC node
\* is appended to self.pod_name_list before anything is done to it
RcLoop ==
    /\ tpc = "test"
    /\ test = "test_k_rc_pod_fail"
    /\ IF tkvalue > 0
       THEN \E p \in Pods \ life.down :
               /\ PodNameListExtend(<<p>>)
               /\ pod_name' = p
               /\ tpc' = "delete"
       ELSE /\ tpc' = "teardown"
            /\ UNCHANGED <<pod_name_list, self_pod_name_list, pod_name>>
    /\ UNCHANGED <<pod_dict, restore_pod, tkvalue, test, t_i, r_i, tests, life>>
    /\ UNCHANGED <<poolVars, scenarioVars, pollVars, singletonVars, bucketVars>>

\* test_ios_during_kpods_down, step 6: self.pod_name_list = sample(pod_list,
\* self.kvalue) gives the instance a list of its own
IosSample(l) ==
    /\ tpc = "test"
    /\ test = "test_ios_during_kpods_down"
    /\ Len(l) = tkvalue
    /\ self_pod_name_list' = [set |-> TRUE, val |-> l]
    /\ t_i' = 1
    /\ tpc' = "loop"
    /\ UNCHANGED <<pod_name_list, pod_dict, restore_pod, tkvalue, test, pod_name,
                   r_i, tests, life>>
    /\ UNCHANGED <<poolVars, scenarioVars, pollVars, singletonVars, bucketVars>>

\* for count, pod_name in enumerate(self.pod_name_list)
IosLoop ==
    /\ tpc = "loop"
    /\ IF t_i <= Len(AttrPodNameList)
       THEN /\ pod_name' = AttrPodNameList[t_i]
            /\ tpc' = "delete"
       ELSE /\ tpc' = "teardown"
            /\ UNCHANGED pod_name
    /\ UNCHANGED <<pod_name_list, pod_dict, self_pod_name_list, restore_pod, tkvalue,
                   test, t_i, r_i, tests, life>>
    /\ UNCHANGED <<poolVars, scenarioVars, pollVars, singletonVars, bucketVars>>

\* resp = delete_deployment(pod_name=...); assert_false(resp[0], ...); then
\* restore_pod = True and pod_dict[pod_name] = pod_data.  A failed assertion
\* ends the test, and teardown_method runs next.
DeleteDeployment(failed) ==
    /\ tpc = "delete"
    /\ IF failed
       THEN /\ tpc' = "teardown"
            /\ UNCHANGED <<pod_dict, restore_pod, t_i, life>>
       ELSE /\ restore_pod' = TRUE
            /\ pod_dict' = DictSet(pod_dict, pod_name, PodData(pod_name))
            /\ life' = [life EXCEPT !.down = @ \cup {pod_name}]
            /\ IF test = "test_k_rc_pod_fail"
               THEN tpc' = "checks" /\ UNCHANGED t_i
               ELSE tpc' = "loop" /\ t_i' = t_i + 1
    /\ UNCHANGED <<pod_name_list, self_pod_name_list, tkvalue, test, pod_name, r_i, tests>>
    /\ UNCHANGED <<poolVars, scenarioVars, pollVars, singletonVars, bucketVars>>

\* test_k_rc_pod_fail, steps 4 to 7 of one round: any of their assertions
\* may fail; if none does, self.kvalue -= 1
RcChecks(failed) ==
    /\ tpc = "checks"
    /\ IF failed
       THEN tpc' = "teardown" /\ UNCHANGED tkvalue
       ELSE tpc' = "test" /\ tkvalue' = tkvalue - 1
    /\ UNCHANGED <<pod_name_list, pod_dict, self_pod_name_list, restore_pod, test,
                   pod_name, t_i, r_i, tests, life>>
    /\ UNCHANGED <<poolVars, scenarioVars, pollVars, singletonVars, bucketVars>>

\* teardown_method up to the restore loop: if self.restore_pod
TeardownMethod ==
    /\ tpc = "teardown"
    /\ IF restore_pod
       THEN /\ r_i' = 1
            /\ tpc' = "restore"
            /\ UNCHANGED life
       ELSE /\ tpc' = "idle"
            /\ life' = [life EXCEPT !.out = "done"]
            /\ UNCHANGED r_i
    /\ UNCHANGED <<pod_name_list, pod_dict, self_pod_name_list, restore_pod, tkvalue,
                   test, pod_name, t_i, tests>>
    /\ UNCHANGED <<poolVars, scenarioVars, pollVars, singletonVars, bucketVars>>

\* One round of for pod_name in self.pod_name_list: len() of a missing
\* entry, which dict.get gives as None, raises TypeError; the entry's
\* deployment is restored, and assert_true(resp[0], ...) may fail
RestoreLoop(ok) ==
    /\ tpc = "restore"
    /\ IF r_i > Len(AttrPodNameList)
       THEN /\ tpc' = "idle"
            /\ life' = [life EXCEPT !.out = "done"]
            /\ UNCHANGED r_i
       ELSE IF AttrPodNameList[r_i] \notin DOMAIN pod_dict
       THEN /\ tpc' = "idle"
            /\ life' = [life EXCEPT !.out = "TypeError"]
            /\ UNCHANGED r_i
       ELSE IF ok
       THEN /\ life' = [life EXCEPT !.restored =
                            Append(@, pod_dict[AttrPodNameList[r_i]][3])]
            /\ r_i' = r_i + 1
            /\ UNCHANGED tpc
       ELSE /\ tpc' = "idle"
            /\ life' = [life EXCEPT !.out = "AssertionError"]
            /\ UNCHANGED r_i
    /\ UNCHANGED <<pod_name_list, pod_dict, self_pod_name_list, restore_pod, tkvalue,
                   test, pod_name, t_i, tests>>
    /\ UNCHANGED <<poolVars, scenarioVars, pollVars, singletonVars, bucketVars>>

NextClass ==
    \/ \E t \in TestNames, k \in 1..MaxK : SetupMethod(t, k)
    \/ \E S \in SUBSET Pods : \E l \in Orders(S) : HelperShutdown(l)
    \/ RcLoop
    \/ \E S \in SUBSET Pods : \E l \in Orders(S) : IosSample(l)
    \/ IosLoop
    \/ \E failed \in BOOLEAN : DeleteDeployment(failed)
    \/ \E failed \in BOOLEAN : RcChecks(failed)
    \/ TeardownMethod
    \/ \E ok \in BOOLEAN : RestoreLoop(ok)

InitClass ==
    /\ PoolState(0)
    /\ ScenarioState(1)
    /\ PollState
    /\ SingletonState
    /\ ClassState
    /\ BucketState(1)

SpecClass == InitClass /\ [][NextClass]_vars

\* -------------------------------------------------- the bucket wait loop
\* test_copy_object_during_kpods_down waits for bkt_cnt buckets before it
\* shuts pods down.  The clock counts seconds.
\* 60 * 3, the seconds the loop allows itself
ThreeMinutes == 60 * 3

\* HA_CFG["common_params"]["20sec_delay"]
Delay20sec == 20

\* bkt_list = list(); timeout = time.time() + 60 * 3
BEnter ==
    /\ bpc = "before"
    /\ bkt_list' = 0
    /\ timeout' = now + ThreeMinutes
    /\ bpc' = "while"
    /\ UNCHANGED <<now, bkt_cnt, polls>>
    /\ UNCHANGED <<poolVars, scenarioVars, pollVars, singletonVars, classVars>>

\* while len(bkt_list) < bkt_cnt; past the loop the test goes on to step 3,
\* the pod shutdown
BWhile ==
    /\ bpc = "while"
    /\ bpc' = IF bkt_list < bkt_cnt THEN "sleep" ELSE "shutdown"
    /\ UNCHANGED <<now, timeout, bkt_cnt, bkt_list, polls>>
    /\ UNCHANGED <<poolVars, scenarioVars, pollVars, singletonVars, classVars>>

\* time.sleep(HA_CFG["common_params"]["20sec_delay"])
BSleep ==
    /\ bpc = "sleep"
    /\ now' = now + Delay20sec
    /\ bpc' = "poll"
    /\ UNCHANGED <<timeout, bkt_cnt, bkt_list, polls>>
    /\ UNCHANGED <<poolVars, scenarioVars, pollVars, singletonVars, classVars>>

\* bkt_list = s3_test_obj.bucket_list()[1]: the call takes d seconds and lists
\* n buckets, not fewer than the poll before it
BPoll(n, d) ==
    /\ bpc = "poll"
    /\ n >= bkt_list
    /\ bkt_list' = n
    /\ now' = now + d
    /\ polls' = [n |-> polls.n + 1, seen |-> polls.seen \/ n >= bkt_cnt]
    /\ bpc' = "deadline"
    /\ UNCHANGED <<timeout, bkt_cnt>>
    /\ UNCHANGED <<poolVars, scenarioVars, pollVars, singletonVars, classVars>>

\* if timeout < time.time(): assert_utils.assert_true(False, ...)
BDeadline ==
    /\ bpc = "deadline"
    /\ bpc' = IF timeout < now THEN "failed" ELSE "while"
    /\ UNCHANGED <<now, timeout, bkt_cnt, bkt_list, polls>>
    /\ UNCHANGED <<poolVars, scenarioVars, pollVars, singletonVars, classVars>>

NextBucket ==
    \/ BEnter
    \/ BWhile
    \/ BSleep
    \/ \E n \in 0..MaxBkt, d \in 0..MaxLatency : BPoll(n, d)
    \/ BDeadline

InitBucket ==
    /\ PoolState(0)
    /\ ScenarioState(1)
    /\ PollState
    /\ SingletonState
    /\ ClassState
    /\ \E n \in 1..MaxBkt : BucketState(n)

SpecBucket == InitBucket /\ [][NextBucket]_vars

\* ------------------------------------------------- Scenario B on the pool
\* A pool of 2 workers, the window opened before the first of 5 tasks is
\* submitted, the 3rd task failing, the window closed after the 4th completes
ScenarioB == [pool |-> 2, tasks |-> 5, failing |-> 3, closeAfter |-> 4]

BTasks == 1..ScenarioB.tasks

InitB ==
    /\ StartWorkers(ScenarioB.pool, "f")
    /\ wcur = [w \in Workers |-> Sentinel]
    /\ witem = [w \in Workers |-> None]
    /\ cpc = [p \in Callers |-> "idle"]
    /\ ctarget = [p \in Callers |-> Pool]
    /\ citem = [p \in Callers |-> Sentinel]
    /\ csub = [p \in Callers |-> Sentinel]
    /\ e_i = 0
    /\ hist = [InitHist EXCEPT !.subWq = [k \in BTasks |-> None],
                               !.handled = [k \in BTasks |-> 0],
                               !.invoked = [k \in BTasks |-> None],
                               !.item = [k \in BTasks |-> None],
                               !.startedOpen = [k \in BTasks |-> FALSE],
                               !.steps = [k \in BTasks |-> << >>]]
    /\ ScenarioState(1)
    /\ PollState
    /\ SingletonState
    /\ ClassState
    /\ BucketState(1)

\* The orchestrator opens the window before anything is submitted
BOpen ==
    /\ fw.sets = 0
    /\ hist.nsub = 0
    /\ EventSet
    /\ fw' = [fw EXCEPT !.sets = @ + 1, !.last = "OPEN"]
    /\ UNCHANGED <<kvalue, count, opc, thread, cur, res, output, responses, rd>>
    /\ UNCHANGED <<poolVars, pollVars, singletonVars, classVars, bucketVars>>

\* The driver submits the next task: an item on its child queue, then wenque
BSubmit ==
    /\ cpc["aux"] = "idle"
    /\ fw.sets = 1
    /\ hist.nsub < ScenarioB.tasks
    /\ LET k == hist.nsub + 1
           e == [id |-> k, wq |-> ChildOf("aux")]
       IN /\ csub' = [csub EXCEPT !["aux"] = e]
          /\ ctarget' = [ctarget EXCEPT !["aux"] = ChildOf("aux")]
          /\ citem' = [citem EXCEPT !["aux"] = "a"]
          /\ hist' = [hist EXCEPT !.nsub = k, !.subWq[k] = ChildOf("aux")]
    /\ cpc' = [cpc EXCEPT !["aux"] = "acquire"]
    /\ UNCHANGED <<nworkers, poolFunc, items, sem, unfinished, wpc, wcur, witem, e_i>>
    /\ UNCHANGED <<scenarioVars, pollVars, singletonVars, classVars, bucketVars>>

\* Task k has completed: its handler has returned or raised
Completed(k) ==
    /\ hist.handled[k] = 1
    /\ \A w \in Workers : wpc[w] = "running" => wcur[w].id # k

\* The orchestrator closes the window once the 4th task has completed
BClose ==
    /\ fw.sets = 1
    /\ fw.clears = 0
    /\ Completed(ScenarioB.closeAfter)
    /\ EventClear
    /\ fw' = [fw EXCEPT !.clears = @ + 1, !.last = "CLOSED"]
    /\ UNCHANGED <<kvalue, count, opc, thread, cur, res, output, responses, rd>>
    /\ UNCHANGED <<poolVars, pollVars, singletonVars, classVars, bucketVars>>

\* The pool is shut down once, after the last submission has returned
BShutdown ==
    /\ Cardinality(hist.subRet) = ScenarioB.tasks
    /\ hist.endCalls = 0
    /\ BeginEndWorkers

\* The injected failure of the failing task may leave its handler as an exception
BRaise(w) ==
    /\ wcur[w].id = ScenarioB.failing
    /\ WRaise(w)

\* The aggregate report of the scenario: the failures, and of those the ones
\* whose task ran inside the window
BFailures == {k \in BTasks : hist.handled[k] = 1 /\ k = ScenarioB.failing}

BExpected == {k \in BFailures : hist.startedOpen[k]}

NextB ==
    \/ BOpen
    \/ BSubmit
    \/ BClose
    \/ BShutdown
    \/ \E p \in Callers : PutAcquire(p)
    \/ \E p \in Callers : ChildEnqueue(p)
    \/ \E p \in Callers : WenqueEnqueue(p)
    \/ SentinelEnqueue
    \/ JoinQueue
    \/ JoinThreads
    \/ \E w \in Threads : WGet(w)
    \/ \E w \in Threads : WChildGet(w)
    \/ \E w \in Threads : WReturn(w)
    \/ \E w \in Threads : BRaise(w)
    \/ \E w \in Threads : WPoolRelease(w)
    \/ \E w \in Threads : WPoolAck(w)
    \/ \E w \in Threads : WSentinelRelease(w)
    \/ \E w \in Threads : WSentinelAck(w)

SpecB == InitB /\ [][NextB]_vars

\* ------------------------------------------------------------- properties
\* No end_workers call is in progress and at least one has returned
EndWorkersReturned == hist.endReturned >= 1 /\ hist.endReturned = hist.endCalls

\* The ids of the tasks waiting in the pool queue
QueuedIds == {items[Pool][i].id : i \in 1..Len(items[Pool])} \ {0}

\* C1: no task is ever handled more than once, and once end_workers has
\* returned on a pool of W >= 1 workers every task submitted before the call
\* has been handled exactly once: the handled count equals the number of
\* tasks submitted, none is skipped.
C1_HandledExactlyOnce ==
    /\ \A k \in TaskIds : hist.handled[k] <= 1
    /\ (nworkers >= 1 /\ EndWorkersReturned) =>
          \A k \in hist.early : hist.handled[k] = 1

\* C1 witness: end_workers has returned after two or more tasks were submitted
C1_Witness ==
    /\ nworkers >= 1
    /\ EndWorkersReturned
    /\ Cardinality(hist.early) >= 2
    /\ \A k \in hist.early : hist.handled[k] = 1

\* C2: once w_workq.join() inside end_workers has returned, and so when
\* end_workers returns, no task submitted before the call is still queued or
\* held by a worker: each has been executed and acknowledged.
C2_ShutdownWaitsForSubmitted ==
    (cpc["main"] = "tjoin" \/ EndWorkersReturned) =>
        \A k \in hist.early :
            /\ k \notin QueuedIds
            /\ \A w \in Workers : wpc[w] \in {"cget", "running", "p_release", "p_ack"} => wcur[w].id # k
            /\ hist.handled[k] = 1
            /\ k \in hist.acked

\* C2 witness: end_workers has been called and has not returned while one task
\* submitted before the call is executing and another is still queued
C2_Witness ==
    /\ hist.endCalls = 1
    /\ hist.endReturned = 0
    /\ \E w \in Executing : wcur[w].id \in hist.early
    /\ QueuedIds \cap hist.early # {}

\* C3: the number of workers inside a handler never exceeds the nworkers the
\* pool was started with.
C3_AtMostWExecuting == Cardinality(Executing) <= nworkers

\* C3 witness: all W = 2 or more workers are inside a handler at once
C3_Witness == nworkers >= 2 /\ Cardinality(Executing) = nworkers

\* C4: while admission control is on, tasks queued plus tasks in the hands of
\* a worker never exceed the bound; a put on the pool queue called at the
\* bound stays blocked in every step taken at the bound, and a put that got
\* its permit enqueues exactly its item.
C4_Backpressure ==
    /\ [](LockReq(Pool) =>
            Len(items[Pool]) + Cardinality(InProgress) <= Maxsize(Pool))
    /\ [][\A p \in Callers :
            /\ (cpc[p] = "acquire" /\ ctarget[p] = Pool /\ AtBound) =>
                  (cpc'[p] = "acquire" /\ citem'[p] = citem[p])
            /\ (cpc[p] = "enqueue" /\ ctarget[p] = Pool /\ cpc'[p] # "enqueue") =>
                  items'[Pool] = Append(items[Pool], citem[p])]_vars

\* C4 witness: a wenque is blocked at the bound while a task is executing
C4_Witness ==
    /\ AtBound
    /\ Executing # {}
    /\ \E p \in Callers :
          cpc[p] = "acquire" /\ ctarget[p] = Pool /\ IsTask(citem[p]) /\ sem[Pool] = 0

\* C5: a handler that raises never ends the worker thread that ran it.
C5_HandlerExceptionKeepsWorker == \A w \in Workers : wpc[w] # "raised"

\* C6: a second end_workers on a pool of W >= 1 workers already shut down
\* does not hang: with every submitted task acknowledged and no wenque in
\* progress, it is never waiting in w_workq.join() on its own sentinels
\* while every worker thread has ended.
C6_SecondEndWorkersDoesNotHang ==
    ~ /\ nworkers >= 1
      /\ hist.endReturned >= 1
      /\ hist.endCalls > hist.endReturned
      /\ cpc["main"] = "join"
      /\ cpc["aux"] = "idle"
      /\ hist.subRet \subseteq hist.acked
      /\ unfinished[Pool] = SentinelCount
      /\ \A w \in Threads : Terminated(w)

\* C7: no task is dropped: on a pool of W >= 1 workers none of which died in
\* a handler, a task whose wenque has returned and that no handler has been
\* given yet always has a live worker left to take it.
C7_NoTaskDropped ==
    (nworkers >= 1 /\ \A w \in Workers : wpc[w] \notin {"raised", "dead"}) =>
        \A k \in hist.subRet :
            hist.handled[k] = 0 => \E w \in Threads : ~Terminated(w)

\* C8: each end_workers call puts exactly one sentinel per worker thread; a
\* worker takes at most one sentinel and, having taken it, acknowledges it
\* and exits; when end_workers has returned every sentinel put has been
\* acknowledged and every worker thread has ended.
C8_OneSentinelPerWorker ==
    /\ e_i <= nworkers
    /\ cpc["main"] \in {"join", "tjoin"} => e_i = nworkers
    /\ \A w \in Workers :
          /\ hist.wsent[w] <= 1
          /\ wpc[w] = "exited" => hist.wsent[w] = 1
          /\ hist.wsent[w] = 1 => wpc[w] \in {"s_release", "s_ack", "exited"}
    /\ EndWorkersReturned =>
          /\ hist.sentPut = nworkers
          /\ hist.sentAcked = hist.sentPut
          /\ \A w \in Threads : wpc[w] = "exited"
          /\ Cardinality(Threads) = nworkers

\* C8 witness: end_workers has returned on a pool of two or more workers that
\* had handled a task
C8_Witness ==
    /\ EndWorkersReturned
    /\ nworkers >= 2
    /\ hist.sentAcked = nworkers
    /\ hist.acked # {}

\* C9 as stated: the function called on a dequeued task is the handler that
\* was given to start_workers.
C9_InvokesPoolHandler ==
    \A k \in TaskIds : hist.handled[k] > 0 => hist.invoked[k] = poolFunc

\* C9 amended: the function called on a dequeued task is the func of the
\* child WorkQ that was dequeued.
C9_InvokesChildFunc ==
    \A k \in TaskIds : hist.handled[k] > 0 => hist.invoked[k] = Func(hist.subWq[k])

\* C9 witness: a task carrying a child whose func differs from the pool's has
\* been handled
C9_Witness ==
    \E k \in TaskIds : hist.handled[k] > 0 /\ Func(hist.subWq[k]) # poolFunc

\* The permits of the pool semaphore that are taken and not yet given back
PermitsHeld ==
    Cardinality({p \in Callers : cpc[p] = "enqueue" /\ ctarget[p] = Pool})
    + Len(items[Pool])
    + Cardinality({w \in Workers :
                     wpc[w] \in {"cget", "running", "p_release", "s_release", "raised", "dead"}})

\* C10 as stated: a task is enqueued only with a permit acquired, and its
\* permit is released only after the task has been acknowledged.
C10_ReleaseAfterAck ==
    LockReq(Pool) =>
        /\ QueuedIds \subseteq hist.acquired
        /\ hist.released \subseteq hist.acked

\* C10 amended: a task is enqueued only with a permit acquired; task_done
\* releases that permit after the handler has returned and before the queue
\* acknowledgment, so every acknowledged task has had its permit released,
\* and permits are neither lost nor duplicated.
C10_AcquireBeforeEnqueue_ReleaseBeforeAck ==
    LockReq(Pool) =>
        /\ QueuedIds \subseteq hist.acquired
        /\ hist.subRet \subseteq hist.acquired
        /\ hist.acked \subseteq hist.released
        /\ \A k \in hist.released :
              /\ hist.handled[k] = 1
              /\ k \in hist.acquired
              /\ \A w \in Workers : wpc[w] \in {"cget", "running", "p_release"} => wcur[w].id # k
        /\ sem[Pool] + PermitsHeld = Maxsize(Pool)

\* C10 witness: a worker has released the permit of its task and has not yet
\* acknowledged the task
C10_Witness ==
    \E w \in Workers :
        /\ wpc[w] = "p_ack"
        /\ wcur[w].id \in hist.released \ hist.acked
\* C11 as stated: the bound on outstanding work is a capacity chosen apart
\* from the worker count: a pool started with MaxWorkers - 1 workers and a
\* buffering bound of MaxWorkers admits exactly MaxWorkers outstanding tasks.
C11_CapIndependentOfWorkers ==
    nworkers = MaxWorkers - 1 => sem[Pool] + PermitsHeld = MaxWorkers

\* C11 amended: start_workers builds the pool queue as WorkQ(func, nworkers),
\* so on a pool of W >= 1 workers the queue capacity and the semaphore are
\* both W: the permits free and held always add up to W, and queued plus
\* in-progress tasks never exceed W.
C11_CapIsWorkerCount ==
    nworkers >= 1 =>
        /\ Maxsize(Pool) = nworkers
        /\ sem[Pool] >= 0
        /\ sem[Pool] + PermitsHeld = nworkers
        /\ Len(items[Pool]) + Cardinality(InProgress) <= nworkers

\* C11 witness: on a pool of W >= 2 workers, W tasks are outstanding, no
\* permit is left and a further wenque waits for one
C11_Witness ==
    /\ nworkers >= 2
    /\ Len(items[Pool]) + Cardinality(InProgress) = nworkers
    /\ sem[Pool] = 0
    /\ \E p \in Callers : cpc[p] = "acquire" /\ ctarget[p] = Pool

\* The task entries a worker thread holds, from its dequeue on
HeldIds ==
    {wcur[w].id : w \in {v \in Workers :
        wpc[v] \in {"cget", "running", "p_release", "p_ack", "raised", "dead"}}} \ {0}

\* C12: equal tasks are never coalesced: every wenque that returned added an
\* entry of its own, which is queued, held by a worker or acknowledged; the
\* unfinished count of the pool queue is the number of puts minus the number
\* of acknowledgments; each task is handled at most once under its own id,
\* and an acknowledged task was handled exactly once with an item of its own.
C12_NoDeduplication ==
    /\ \A k \in hist.subRet : k \in QueuedIds \cup HeldIds \cup hist.acked
    /\ unfinished[Pool] = Cardinality(hist.subRet) + hist.sentPut
                             - Cardinality(hist.acked) - hist.sentAcked
    /\ \A k \in TaskIds :
          /\ hist.handled[k] <= 1
          /\ k \in hist.acked => hist.handled[k] = 1 /\ hist.item[k] \in Payloads

\* C12 witness: two tasks carrying the same child queue, each with the same
\* payload put on it, have both been handled and acknowledged
C12_Witness ==
    \E k1, k2 \in hist.acked :
        /\ k1 # k2
        /\ hist.subWq[k1] = hist.subWq[k2]
        /\ hist.item[k1] = hist.item[k2]
        /\ hist.handled[k1] = 1 /\ hist.handled[k2] = 1
C14_DoubleOpenFailsFast == [][~(event /\ fw'.sets = fw.sets + 1)]_vars

C16_NoPhantomFailures ==
    /\ opc = "passed" =>
          \A i \in Ops : (res[i].out # None /\ ~res[i].inwin) => res[i].out = "pass"
    /\ opc \in {"retry", "passed"} => responses[3] = {}
    /\ (opc \in {"retry", "passed", "failed"} /\ Len(responses) = 3 /\ responses[3] # {}) =>
          (opc = "failed" /\ fw.why = "failed_bkts")

\* C16 witness: a report with expected failures and with failures outside the
\* window has failed the scenario
C16_Witness ==
    /\ opc = "failed"
    /\ fw.why = "failed_bkts"
    /\ responses[2] # {}
    /\ responses[3] # {}

\* C17: the background thread puts at most one message, and exactly one when
\* it completes; the message is whole, carrying both lists of failures as
\* they stand at the end; the orchestrator acts only on that message, taken
\* after the thread has ended, and nothing else is left on the queue.
C17_OneAggregateMessage ==
    /\ fw.puts <= 1
    /\ thread \in {"reported", "exited"} <=> fw.puts = 1
    /\ Len(output) <= fw.puts
    /\ \A i \in 1..Len(output) : output[i] = Report /\ ~Incomplete(output[i])
    /\ (opc \in {"verdict", "retry", "passed"} \/ fw.why \in {"failed_bkts", "retry"}) =>
          /\ responses = Report
          /\ thread = "exited"
          /\ output = << >>

\* C17 witness: the orchestrator holds the one message of a thread that has
\* ended, with a failure in each list
C17_Witness ==
    /\ opc = "verdict"
    /\ fw.puts = 1
    /\ responses = Report
    /\ ExpFailed # {} /\ Failed # {}

\* C18: when the background thread never delivers its report, the waiting
\* orchestrator is not blocked: its wait can end.
C18_WaitEndsOnTimeout ==
    (opc \in {"join", "get"} /\ thread \in {"hung", "died"} /\ output = << >>) =>
        ENABLED OrchWait

\* C20: every deletion is done with the event set and not yet cleared: the
\* set precedes the first deletion, and at the clear all K are done.
C20_DeletionsInsideWindow ==
    /\ [](/\ count <= kvalue
          /\ count > 0 => fw.sets = 1
          /\ fw.clears >= 1 => count = kvalue)
    /\ [][count' # count =>
            /\ count' = count + 1
            /\ event /\ event'
            /\ fw.sets = 1 /\ fw.clears = 0]_vars

\* C21: failures that overlapped the window do not fail the scenario by
\* themselves: a retry is issued only after the window, only with no unexpected
\* failure and some expected ones, on exactly the expected failures, and the
\* scenario passes after it only if the retry succeeded; with both lists empty
\* there is no retry, and "failed_bkts" is raised only for unexpected failures
C21_ExpectedFailuresRetried ==
    /\ fw.retries <= 1
    /\ fw.retries = 1 =>
          /\ responses[3] = {} /\ responses[2] # {}
          /\ fw.retried = responses[2]
          /\ fw.retried = ExpFailed
          /\ fw.clears = 1 /\ ~event
          /\ opc \in {"passed", "failed"}
          /\ opc = "failed" <=> fw.why = "retry"
    /\ (opc \in {"retry", "passed", "failed"} /\ fw.why \in {None, "retry", "failed_bkts"}) =>
          /\ Len(responses) = 3
          /\ (responses[2] = {} /\ responses[3] = {}) => (fw.retries = 0 /\ opc = "passed")
          /\ (responses[3] = {} /\ responses[2] # {}) =>
                (opc = "retry" \/ fw.retries = 1)
          /\ fw.why = "failed_bkts" <=> responses[3] # {}
    /\ opc = "retry" => (responses[3] = {} /\ responses[2] # {} /\ fw.retries = 0)

\* C21 witness: the scenario has passed after retrying its expected failures
C21_Witness ==
    /\ opc = "passed"
    /\ fw.retries = 1
    /\ fw.retried = ExpFailed
    /\ ExpFailed # {}

\* C22: the orchestrator reads a report from the output queue only after it
\* has joined the background thread: at every read the thread has terminated,
\* and past the join no thread is still running
C22_ReadAfterJoin ==
    /\ [](opc \in {"get", "verdict", "retry", "passed"} => thread \in {"exited", "died"})
    /\ [][Len(output') < Len(output) => thread \in {"exited", "died"}]_vars

\* C22 witness: a report has been read, from a thread that had terminated
C22_Witness ==
    /\ opc = "verdict"
    /\ thread = "exited"
    /\ responses = Report
    /\ output = << >>

C24_FifoSentinelAfterTasks ==
    [][/\ Len(items'[Pool]) > Len(items[Pool]) =>
             SubSeq(items'[Pool], 1, Len(items[Pool])) = items[Pool]
       /\ \A w \in Workers :
             (wpc[w] = "get" /\ wpc'[w] # "get") =>
                 /\ wcur'[w] = Head(items[Pool])
                 /\ items'[Pool] = Tail(items[Pool])
                 /\ wpc'[w] = "s_release" => QueuedIds \cap hist.early = {}]_vars

\* C24 witness: a worker has taken a sentinel that was put behind a task
\* enqueued before end_workers was called, the task having been taken first
C24_Witness ==
    /\ hist.endCalls = 1
    /\ Cardinality(hist.early) >= 1
    /\ QueuedIds = {}
    /\ \E w \in Workers : wpc[w] = "s_release"
    /\ \E w \in Workers : wpc[w] = "cget" /\ wcur[w].id \in hist.early

\* C25: with handlers that return, an item in every child queue and no wenque
\* called after end_workers, the call of end_workers returns in the end: until
\* it has returned the threads are never all blocked
C25_EndWorkersReturns ==
    (hist.endCalls = 1 /\ ~EndWorkersReturned) => ENABLED NextLive

\* C26: for a WorkQ with maxsize > 0 the permits of its semaphore stay between
\* 0 and maxsize, the queue never holds more than maxsize items, and a
\* producer that holds a permit finds room: Queue.put inside WorkQ.put never
\* waits for the queue to have room
C26_SemaphoreBoundsQueue ==
    \A q \in Queues :
        LockReq(q) =>
            /\ sem[q] \in 0..Maxsize(q)
            /\ Len(items[q]) <= Maxsize(q)
            /\ Len(items[q]) + sem[q] <= Maxsize(q)
            /\ \A p \in Callers :
                  (cpc[p] = "enqueue" /\ ctarget[p] = q) => NotFull(q)

\* C26 witness: the pool queue of 2 is full, no permit is left and a producer
\* waits at the semaphore
C26_Witness ==
    /\ nworkers = 2
    /\ Len(items[Pool]) = Maxsize(Pool)
    /\ sem[Pool] = 0
    /\ \E p \in Callers : cpc[p] = "acquire" /\ ctarget[p] = Pool

\* C27: a WorkQ created with maxsize = 0, the pool queue of a pool started
\* with nworkers = 0 among them, has no admission control: put takes no
\* permit and never waits, task_done gives none back (the semaphore stays at
\* its initial 0), and the queue always has room
C27_NoAdmissionControlAtZero ==
    \A q \in Queues :
        Maxsize(q) = 0 =>
            /\ sem[q] = 0
            /\ NotFull(q)
            /\ \A p \in Callers :
                  (cpc[p] = "acquire" /\ ctarget[p] = q) => ENABLED PutAcquire(p)

\* C27 witness: in a pool of 0 workers the child queue of maxsize 0 holds two
\* items, the pool queue holds a task and a caller is about to put a second
C27_Witness ==
    /\ nworkers = 0
    /\ Len(items[Pool]) = 1
    /\ Len(items["c2"]) = 2
    /\ cpc["aux"] = "acquire"
    /\ ctarget["aux"] = Pool

\* What the worker does with a child queue it took from the pool queue
LoopBody == <<"wq.get", "wq.func", "wq.task_done", "w_workq.task_done">>

\* C28: for each task entry a worker takes, it takes one item off the child
\* queue, calls the child's func on that item once, acknowledges once on the
\* child queue and then once on the pool queue, in that order: what has been
\* done for a task is always a prefix of that sequence, the whole of it once
\* the worker is back at the head of its loop, and the pool queue is never
\* acknowledged for a task whose item has not been handled
C28_OneItemOneCallOneAckEach ==
    /\ [](\A k \in DOMAIN hist.steps :
            /\ Len(hist.steps[k]) <= Len(LoopBody)
            /\ hist.steps[k] = SubSeq(LoopBody, 1, Len(hist.steps[k]))
            /\ k \in hist.acked <=> hist.steps[k] = LoopBody
            /\ k \in hist.acked =>
                  (hist.handled[k] = 1 /\ hist.invoked[k] = Func(hist.subWq[k])))
    /\ [][\A w \in Workers :
            (wpc[w] = "cget" /\ wpc'[w] # "cget") =>
                /\ Len(items'[wcur[w].wq]) = Len(items[wcur[w].wq]) - 1
                /\ witem'[w] = Head(items[wcur[w].wq])
                /\ hist'.item[wcur[w].id] = witem'[w]]_vars

\* C28 witness: a worker has been through the whole body for one task and is
\* between the two acknowledgements for another
C28_Witness ==
    /\ \E k \in hist.acked : hist.steps[k] = LoopBody
    /\ \E w \in Workers :
          /\ wpc[w] \in {"p_release", "p_ack"}
          /\ hist.steps[wcur[w].id] = SubSeq(LoopBody, 1, 3)

\* C29: so long as neither reinit_instance nor clear_instance has been called,
\* the class constructor has run at most once whatever init_instance calls
\* were made, and every get_instance that returned has returned the one
\* instance stored
C29_ConstructedAtMostOnce ==
    resets = 0 =>
        /\ made <= 1
        /\ \A t \in Clients :
              (sret[t].op = "get_instance" /\ sret[t].out = "return") =>
                  (instance # 0 /\ sret[t].val = instance)

\* C30: get_instance, reinit_instance and clear_instance raise
\* CT_SINGLETON_NOT_INITIALIZED exactly when they find no instance set, the
\* instance then staying unset and the lock free of the caller; clear_instance
\* on an instance unsets it, and an init_instance that finds none set goes on
\* to the constructor and stores what it made
C30_RaisesWhenUnset ==
    [][\A t \in Clients :
        /\ (spc[t] = "g_check" /\ spc'[t] # "g_check") =>
              /\ instance = 0 <=> spc'[t] = "idle"
              /\ instance = 0 => sret'[t] = Result("get_instance", NotInitialized, 0)
              /\ instance # 0 => sret'[t] = sret[t]
              /\ instance' = instance /\ instance_lock' = instance_lock
        /\ (spc[t] = "r_check" /\ spc'[t] # "r_check") =>
              /\ instance = 0 <=> spc'[t] = "idle"
              /\ instance = 0 => sret'[t] = Result("reinit_instance", NotInitialized, 0)
              /\ instance # 0 => sret'[t] = sret[t]
              /\ instance' = instance
              /\ instance = 0 => instance_lock' = None
        /\ (spc[t] = "c_check" /\ spc'[t] # "c_check") =>
              /\ instance = 0 <=> sret'[t] = Result("clear_instance", NotInitialized, 0)
              /\ instance' = 0
              /\ instance_lock' = None
        /\ (spc[t] # "idle" /\ spc'[t] = "idle" /\ sret'[t].out = NotInitialized) =>
              /\ spc[t] \in {"g_check", "r_check", "c_check"}
              /\ instance = 0 /\ instance' = 0
              /\ instance_lock' # t
        /\ (spc[t] \in {"i_check", "i_check2"} /\ spc'[t] # spc[t] /\ instance = 0) =>
              spc'[t] \in {"i_lock", "i_construct"}
        /\ (spc[t] = "i_construct" /\ spc'[t] # "i_construct") => made' = made + 1
        /\ (spc[t] = "i_store" /\ spc'[t] # "i_store") =>
              (instance = 0 /\ instance' = made /\ made > 0)]_vars

\* C30 witness: t1 has cleared an initialized singleton and the init_instance
\* of t2 that followed has stored the second object the constructor made
C30_Witness ==
    /\ sret["t1"] = Result("clear_instance", "return", 0)
    /\ sret["t2"] = Result("init_instance", "return", 0)
    /\ made = 2
    /\ instance = 2
    /\ \A t \in Clients : spc[t] = "idle"

\* C31: once a thread's init_instance has ended, as init_report_client's does,
\* and nothing has reset the singleton, the get_instance that report_client
\* makes finds the instance and returns it instead of raising
C31_ReportClientReturns ==
    [][\A t \in Clients :
        (/\ resets = 0
         /\ sret[t].op = "init_instance"
         /\ spc[t] = "g_check"
         /\ spc'[t] # "g_check") => spc'[t] = "g_return"]_vars

\* C32: when the polling loop exits normally the report it holds has the
\* awaited shape, so the test "if not responses" after the loop never fires;
\* the loop fails only by queue.Empty, a get having waited its whole timeout
C32_PostCheckNeverFires ==
    /\ opc \in {"verdict", "checked"} => (~Incomplete(responses) /\ ~NoReport(responses))
    /\ fw.why # "Background process failed"
    /\ opc = "failed" => (fw.why = "Empty" /\ waited = DelayTicks)

\* C32 witness: the loop has passed over an empty and a short message, has left
\* with a whole report, and the test after it has let the report through
C32_Witness ==
    /\ opc = "checked"
    /\ responses = Complete
    /\ fw.puts = 3
    /\ output = << >>

\* C33: whenever teardown_method runs with restore_pod set, every pod name
\* in self.pod_name_list has an entry in pod_dict (its hostname and
\* deployment data), so the restore loop never takes len() of a missing
\* entry, on every path through a test, a failed assertion included.
C33_EveryNameHasEntry ==
    /\ (tpc \in {"teardown", "restore"} /\ restore_pod) =>
           \A i \in 1..Len(AttrPodNameList) :
               /\ AttrPodNameList[i] \in DOMAIN pod_dict
               /\ Len(pod_dict[AttrPodNameList[i]]) \in {2, 3}
    /\ life.out # "TypeError"

\* C34: scenario state is scoped to one test: teardown_method restores
\* exactly the pods the test that just ran shut down, and pod_dict holds no
\* pod of an earlier test when a later test's teardown runs.
C34_TeardownRestoresOwnPods ==
    /\ Range(life.restored) \subseteq life.down
    /\ tpc \in {"teardown", "restore"} => DOMAIN pod_dict \subseteq life.down
    /\ (tpc = "idle" /\ life.out = "done") =>
           /\ Range(life.restored) = life.down
           /\ Len(life.restored) = Cardinality(life.down)

\* C35: the bucket wait loop goes on to the pod shutdown only after a poll
\* that listed at least bkt_cnt buckets, and it fails the test only when the
\* three minutes have passed and no poll has listed bkt_cnt buckets.
C35_FailsOnlyUnobserved ==
    /\ bpc = "shutdown" => polls.seen
    /\ bpc = "failed" => (timeout < now /\ ~polls.seen)

\* C20 witness: K = 2 or more pods were deleted and the event was cleared
C20_Witness ==
    /\ kvalue >= 2
    /\ count = kvalue
    /\ fw.clears = 1
    /\ ~event
\* C19: Scenario B ends with its report, and the report holds exactly 1
\* failure, classified inside the window, and none outside: the failing 3rd
\* task runs while the window is open; once the pool has been shut down all 5
\* tasks have been handled once, the 3rd task's failure is the only one and
\* is expected; and the scenario never comes to rest before the shutdown
\* has returned.
C19_ScenarioB ==
    /\ hist.handled[ScenarioB.failing] = 1 => hist.startedOpen[ScenarioB.failing]
    /\ EndWorkersReturned =>
          /\ \A k \in BTasks : hist.handled[k] = 1
          /\ Cardinality(BFailures) = 1
          /\ BExpected = {ScenarioB.failing}
          /\ BFailures \ BExpected = {}
    /\ (~ENABLED NextB) => EndWorkersReturned
====
